---- MODULE Spec2Model ----
(***************************************************************************)
(* Design Token Extraction & Normalization Engine                          *)
(* (design-system-extractor/scripts/extract_image_colors.py,               *)
(*  design-system-extractor/scripts/normalize_tokens.py and the style      *)
(*  sampler design-system-extractor/scripts/extract_website_design.py).    *)
(*                                                                         *)
(* Strings are sequences of character codes, so that parsing and           *)
(* formatting are computed and not assumed:                                *)
(*   0..15  the characters '0'..'9','a'..'f'                               *)
(*   16..21 the characters 'A'..'F'                                        *)
(*   22     the character '#'                                              *)
(*   23     a character that is no hex digit (such as 'g' or '(')          *)
(*   24     the character '.'                                              *)
(*   25..28 the characters 'p', 'x', 'r', 'm'                              *)
(***************************************************************************)
EXTENDS Integers, Naturals, Sequences, FiniteSets, TLC

VARIABLES pc, base_rgb, base_hex, scale, scale_n, gray, colors, categorized,
          file, image, num_colors, sample_fraction, samples, calls, result,
          payload, raised, extracted_data, tokens, px_value, px_result,
          argc, input_file, exit_status,
          url, page, browser, nav_error, exc, site_calls, site_result,
          spacing_list, named_scale

colorVars == <<base_rgb, base_hex, scale, scale_n, gray>>

catVars == <<colors, categorized>>

exInputs == <<file, image, num_colors, sample_fraction>>

exVars == <<exInputs, samples, calls, result, payload, raised>>

normVars == <<extracted_data, tokens>>

pxVars == <<px_value, px_result>>

cliInputs == <<argc, input_file>>

cliVars == <<cliInputs, exit_status>>

siteInputs == <<url, page>>

siteVars == <<siteInputs, browser, nav_error, exc, site_calls, site_result>>

spacingVars == <<spacing_list, named_scale>>

vars == <<pc, colorVars, catVars, exVars, normVars, pxVars, cliVars, siteVars, spacingVars>>

-----------------------------------------------------------------------------
(* Bounds of the model *)

\* the channels g and b of a base colour are multiples of ChanStride
\* (plus a few fixed values); the channel r ranges over all of 0..255
ChanStride == 51

\* longest cluster list handed to categorize_colors
MaxClusters == 3

\* most pixels of a small image
MaxPixels == 4

\* largest cluster count K requested
MaxK == 3

\* a large image has ten times the pixels of a small image of at most
\* MaxTens pixels
MaxTens == 3

\* longest colors, spacing and fontFamilies lists of an extraction document
MaxColors == 2

MaxSpacing == 2

MaxFamilies == 2

\* longest colour and spacing lists the style sampler reads from a page
MaxPageValues == 2

-----------------------------------------------------------------------------
(* Characters and hex strings *)

HashChar == 22

OtherChar == 23

DotChar == 24

CharP == 25

CharX == 26

CharR == 27

CharM == 28

\* 'e' is the hex digit 14
CharE == 14

IsHexDigit(ch) == ch \in 0..21

HexVal(ch) == IF ch < 16 THEN ch ELSE ch - 6

Min(a, b) == IF a < b THEN a ELSE b

Max(a, b) == IF a > b THEN a ELSE b

Abs(x) == IF x < 0 THEN -x ELSE x

\* str.lstrip('#'): every leading '#' is removed
RECURSIVE lstrip_hash(_)
lstrip_hash(s) ==
    IF s # <<>> /\ Head(s) = HashChar THEN lstrip_hash(Tail(s)) ELSE s

\* the Python slice s[i:i+2] (0-based i), clipped to the string
Slice2(s, i) == SubSeq(s, i + 1, Min(i + 2, Len(s)))

\* int(s, 16) raises ValueError on the empty string and on a non-hex digit
IntHexRaises(s) == s = <<>> \/ \E i \in 1..Len(s) : ~IsHexDigit(s[i])

RECURSIVE IntHex(_)
IntHex(s) ==
    IF s = <<>> THEN 0 ELSE 16 * IntHex(SubSeq(s, 1, Len(s) - 1)) + HexVal(s[Len(s)])

\* hex_to_rgb raises ValueError when one of the three slices does not parse
hex_to_rgb_raises(hex_color) ==
    LET h == lstrip_hash(hex_color)
    IN  \E i \in {0, 2, 4} : IntHexRaises(Slice2(h, i))

hex_to_rgb(hex_color) ==
    LET h == lstrip_hash(hex_color)
    IN  <<IntHex(Slice2(h, 0)), IntHex(Slice2(h, 2)), IntHex(Slice2(h, 4))>>

\* '{:02x}'.format(n) for 0 <= n <= 255: two lower-case digits
Fmt02x(n) == <<n \div 16, n % 16>>

rgb_to_hex(rgb) == <<HashChar>> \o Fmt02x(rgb[1]) \o Fmt02x(rgb[2]) \o Fmt02x(rgb[3])

\* calculate_brightness, in thousandths (0.299 r + 0.587 g + 0.114 b)
calculate_brightness(rgb) == 299 * rgb[1] + 587 * rgb[2] + 114 * rgb[3]

GrayThreshold == 15

\* is_grayscale on the colour <<num[1], num[2], num[3]>> / den (den > 0)
is_grayscale_at(num, den) ==
    /\ Abs(num[1] - num[2]) < GrayThreshold * den
    /\ Abs(num[2] - num[3]) < GrayThreshold * den
    /\ Abs(num[1] - num[3]) < GrayThreshold * den

is_grayscale_mut(rgb) ==
    /\ Abs(rgb[1] - rgb[2]) < GrayThreshold
    /\ Abs(rgb[2] - rgb[3]) < GrayThreshold

is_grayscale(rgb) ==
    /\ Abs(rgb[1] - rgb[2]) < GrayThreshold
    /\ Abs(rgb[2] - rgb[3]) < GrayThreshold
    /\ Abs(rgb[1] - rgb[3]) < GrayThreshold

-----------------------------------------------------------------------------
(* Scale Generator *)

LighterSteps == {50, 100, 200, 300, 400}

DarkerSteps == {600, 700, 800, 900, 950}

Steps == LighterSteps \cup {500} \cup DarkerSteps

StepOrder == <<50, 100, 200, 300, 400, 500, 600, 700, 800, 900, 950>>

\* The factor of a step is the rational FactorNum/FactorDen:
\*   1 + ((500 - step) / 500) * 0.7   and   1 - ((step - 500) / 450) * 0.8
FactorDen(step) == IF step < 500 THEN 5000 ELSE 4500

FactorNum_mut(step) ==
    IF step < 500 THEN 5000 + 7 * step ELSE 4500 - 8 * (step - 500)

FactorNum(step) ==
    IF step < 500 THEN 5000 + 7 * (500 - step) ELSE 4500 - 8 * (step - 500)

\* Python evaluates the factor in IEEE-754 doubles. The double it obtains is
\* M / 2^FactorExp(step), and FactorErr(step) is
\*   FactorDen * M - FactorNum * 2^FactorExp,
\* the (signed) distance of that double from the rational factor.
FactorExp(step) ==
    CASE step \in LighterSteps -> 52
      [] step \in {600, 700} -> 53
      [] step \in {800, 900} -> 54
      [] step = 950 -> 55

FactorErr(step) ==
    CASE step = 50 -> -2400
      [] step = 100 -> 1200
      [] step = 200 -> -1600
      [] step = 300 -> 600
      [] step = 400 -> -2200
      [] step = 600 -> -1400
      [] step = 700 -> -2800
      [] step = 800 -> 600
      [] step = 900 -> -2200
      [] step = 950 -> -7200

Pow2(n) == 2 ^ n

Log2Floor(n) == CHOOSE e \in 0..9 : Pow2(e) <= n /\ n < Pow2(e + 1)

\* int(c * factor): the double product c * factor, rounded to nearest, then
\* truncated. It is the floor of the rational product except where that
\* product is an integer N and the double product rounds below N.
IntTimesFactor(c, step) ==
    LET p == FactorNum(step)
        q == FactorDen(step)
        n == (c * p) \div q
    IN  IF (c * p) % q # 0 \/ FactorErr(step) >= 0 \/ n = 0
        THEN n
        ELSE LET e  == Log2Floor(n)
                 ex == FactorExp(step) + e - 53 - (IF n = Pow2(e) THEN 1 ELSE 0)
             IN  IF 4 * (-(c * FactorErr(step))) > q * Pow2(ex + 2)
                 THEN n - 1 ELSE n

ScaleChannel(c, step) ==
    IF step < 500 THEN Min(255, IntTimesFactor(c, step))
                  ELSE Max(0, IntTimesFactor(c, step))

ScaleRgb(rgb, step) ==
    <<ScaleChannel(rgb[1], step), ScaleChannel(rgb[2], step), ScaleChannel(rgb[3], step)>>

generate_color_scale_mut(base_hex_arg) ==
    LET rgb == hex_to_rgb(base_hex_arg)
    IN  [s \in Steps |-> IF s = 500 THEN rgb_to_hex(rgb)
                                    ELSE rgb_to_hex(ScaleRgb(rgb, s))]

\* generate_color_scale(base_hex), defined when hex_to_rgb does not raise
generate_color_scale(base_hex_arg) ==
    LET rgb == hex_to_rgb(base_hex_arg)
    IN  [s \in Steps |-> IF s = 500 THEN base_hex_arg
                                    ELSE rgb_to_hex(ScaleRgb(rgb, s))]

\* str(step)
StepStr(s) ==
    CASE s = 50 -> "50" [] s = 100 -> "100" [] s = 200 -> "200"
      [] s = 300 -> "300" [] s = 400 -> "400" [] s = 500 -> "500"
      [] s = 600 -> "600" [] s = 700 -> "700" [] s = 800 -> "800"
      [] s = 900 -> "900" [] s = 950 -> "950"

StepKeys == {StepStr(s) : s \in Steps}

StepOfKey(k) == CHOOSE s \in Steps : StepStr(s) = k

\* the float rounded to the nearest integer where int() truncates it
ScaleChannelFloat_mut(c, step) ==
    LET t == IntTimesFactor(c, step)
        r == IF 2 * ((c * FactorNum(step)) % FactorDen(step)) >= FactorDen(step)
             THEN t + 1 ELSE t
    IN  IF step < 500 THEN (IF r >= 255 THEN 255 ELSE r) ELSE r

\* int(min(255, c * factor)) and int(max(0, c * factor)): the clamp is
\* applied to the float product and the nested rgb_to_hex truncates the
\* clamped float; the product is never negative
ScaleChannelFloat(c, step) ==
    LET t == IntTimesFactor(c, step)
    IN  IF step < 500 THEN (IF t >= 255 THEN 255 ELSE t) ELSE t

\* generate_color_scale_from_hex(base_hex)
generate_color_scale_from_hex(base_hex_arg) ==
    LET rgb == hex_to_rgb(base_hex_arg)
    IN  [k \in StepKeys |->
            IF k = "500" THEN base_hex_arg
            ELSE rgb_to_hex(<<ScaleChannelFloat(rgb[1], StepOfKey(k)),
                              ScaleChannelFloat(rgb[2], StepOfKey(k)),
                              ScaleChannelFloat(rgb[3], StepOfKey(k))>>)]

-----------------------------------------------------------------------------
(* Color Classifier *)

\* Python's None
None == [none |-> TRUE]

\* list.sort(key=...) is stable: an element is inserted after the elements
\* whose key is not greater
RECURSIVE InsertByBrightness(_, _)
InsertByBrightness(sorted, c) ==
    IF sorted = <<>> THEN <<c>>
    ELSE IF c.brightness < Head(sorted).brightness THEN <<c>> \o sorted
    ELSE <<Head(sorted)>> \o InsertByBrightness(Tail(sorted), c)

RECURSIVE SortByBrightness(_)
SortByBrightness(s) ==
    IF s = <<>> THEN <<>>
    ELSE InsertByBrightness(SortByBrightness(SubSeq(s, 1, Len(s) - 1)), s[Len(s)])

IsChromatic(c) == ~c.is_grayscale

IsGray(c) == c.is_grayscale

OverFivePercent(c) == c.percentage > 500

select_primary_mut(chromatic) ==
    IF chromatic # <<>> THEN chromatic[1] ELSE None

\* the last candidate taken for the first
select_primary_mut27(chromatic) ==
    LET primary_candidates == SelectSeq(chromatic, OverFivePercent)
    IN  IF primary_candidates # <<>> THEN primary_candidates[Len(primary_candidates)]
        ELSE IF chromatic # <<>> THEN chromatic[1] ELSE None

\* primary_candidates[0] if primary_candidates else
\*     (chromatic[0] if chromatic else None)
select_primary(chromatic) ==
    LET primary_candidates == SelectSeq(chromatic, OverFivePercent)
    IN  IF primary_candidates # <<>> THEN primary_candidates[1]
        ELSE IF chromatic # <<>> THEN chromatic[1] ELSE None

\* [c for c in chromatic if c != primary]: dictionaries compare by value
select_accents(chromatic, primary) ==
    LET Differs(c) == c # primary IN SelectSeq(chromatic, Differs)

categorize_colors(cs) ==
    LET chromatic == SelectSeq(cs, IsChromatic)
        grayscale == SortByBrightness(SelectSeq(cs, IsGray))
        primary   == select_primary(chromatic)
    IN  [primary |-> primary, grayscale |-> grayscale,
         accents |-> select_accents(chromatic, primary)]

-----------------------------------------------------------------------------
(* Value Normalizer: numbers and lengths as strings *)

\* A raw value of the extraction document is a string (a sequence of
\* characters) or a number.
Str(chars) == [type |-> "str", chars |-> chars, val |-> 0]

Num(n) == [type |-> "int", chars |-> <<>>, val |-> n]

IsDigit(ch) == ch \in 0..9

IsNumChar(ch) == IsDigit(ch) \/ ch = DotChar

\* length of the longest prefix matched by [\d.]*
RECURSIVE NumPrefixLen(_)
NumPrefixLen(s) ==
    IF s # <<>> /\ IsNumChar(Head(s)) THEN 1 + NumPrefixLen(Tail(s)) ELSE 0

\* re.match(r'([\d.]+)px', s): the greedy group is the whole numeric prefix
PxMatches(s) ==
    LET n == NumPrefixLen(s)
    IN  n >= 1 /\ Len(s) >= n + 2 /\ s[n + 1] = CharP /\ s[n + 2] = CharX

PxGroup(s) == SubSeq(s, 1, NumPrefixLen(s))

CountDots(s) == Cardinality({i \in 1..Len(s) : s[i] = DotChar})

\* float(s) raises ValueError unless s is digits with at most one '.' and at
\* least one digit (the strings of the model carry no sign, exponent or blank)
FloatRaises(s) ==
    \/ \E i \in 1..Len(s) : ~IsNumChar(s[i])
    \/ CountDots(s) > 1
    \/ CountDots(s) = Len(s)

RECURSIVE DecimalValue(_)
DecimalValue(digits) ==
    IF digits = <<>> THEN 0
    ELSE 10 * DecimalValue(SubSeq(digits, 1, Len(digits) - 1)) + digits[Len(digits)]

Pow10(n) == 10 ^ n

DotPos(s) == IF CountDots(s) = 0 THEN Len(s) + 1 ELSE CHOOSE i \in 1..Len(s) : s[i] = DotChar

\* float(s) in units of 1/32; the fractions of the model are multiples of
\* 1/32, which a double holds exactly
Float32(s) ==
    LET d    == DotPos(s)
        ip   == SubSeq(s, 1, d - 1)
        fp   == SubSeq(s, d + 1, Len(s))
    IN  32 * DecimalValue(ip) + (32 * DecimalValue(fp)) \div Pow10(Len(fp))

RECURSIVE IntStr(_)
IntStr(n) == IF n < 10 THEN <<n>> ELSE IntStr(n \div 10) \o <<n % 10>>

\* the decimal digits of r/32 after the point
RECURSIVE FracDigits(_)
FracDigits(r) ==
    IF r = 0 THEN <<>> ELSE <<(10 * r) \div 32>> \o FracDigits((10 * r) % 32)

\* str(x) of the float x = u/32: '2.0', '0.125', '1.25'
FloatStr(u) ==
    IntStr(u \div 32) \o <<DotChar>> \o (IF u % 32 = 0 THEN <<0>> ELSE FracDigits(u % 32))

RemChars == <<CharR, CharE, CharM>>

EndsWithRem(s) == Len(s) >= 3 /\ SubSeq(s, Len(s) - 2, Len(s)) = RemChars

\* s.replace('rem', '')
RECURSIVE RemoveRem(_)
RemoveRem(s) ==
    IF Len(s) < 3 THEN s
    ELSE IF SubSeq(s, 1, 3) = RemChars THEN RemoveRem(SubSeq(s, 4, Len(s)))
    ELSE <<Head(s)>> \o RemoveRem(Tail(s))

PxBase == 16

\* px_to_rem(px_value) raises when float() rejects the matched group
px_to_rem_raises(v) ==
    v.type = "str" /\ PxMatches(v.chars) /\ FloatRaises(PxGroup(v.chars))

\* px_to_rem(px_value): f"{px / base}rem" for a pixel length, else the value
px_to_rem(v) ==
    IF v.type = "str" /\ PxMatches(v.chars)
    THEN Str(FloatStr(Float32(PxGroup(v.chars)) \div PxBase) \o RemChars)
    ELSE v

-----------------------------------------------------------------------------
(* Value Normalizer: spacing *)

\* standard_scale, in units of 1/32 rem
standard_scale ==
    <<0, 4, 8, 12, 16, 20, 24, 28, 32, 40, 48, 56, 64,
      72, 80, 88, 96, 112, 128, 160, 192, 224, 256, 288, 320, 352, 384, 448,
      512, 640, 768>>

\* the keys of basic_scale, in units of 1/32 rem
basic_scale == <<0, 4, 8, 16, 24, 32, 48, 64, 96, 128>>

\* one step of the loop over spacing_values: what it raises
SpacingValueRaises(v) ==
    \/ px_to_rem_raises(v)
    \/ px_to_rem(v).type # "str"
    \/ /\ EndsWithRem(px_to_rem(v).chars)
       /\ FloatRaises(RemoveRem(px_to_rem(v).chars))

\* the loop stops at the first value that raises
normalize_spacing_scale_raises(spacing_values) ==
    \E i \in 1..Len(spacing_values) : SpacingValueRaises(spacing_values[i])

\* the loop left after its first value
rem_values_mut(spacing_values) ==
    {Float32(RemoveRem(px_to_rem(spacing_values[i]).chars)) :
        i \in {j \in 1..Min(1, Len(spacing_values)) :
                    EndsWithRem(px_to_rem(spacing_values[j]).chars)}}

\* rem_values: the floats collected from the values that end with 'rem'
rem_values(spacing_values) ==
    {Float32(RemoveRem(px_to_rem(spacing_values[i]).chars)) :
        i \in {j \in 1..Len(spacing_values) : EndsWithRem(px_to_rem(spacing_values[j]).chars)}}

\* the last minimal entry
closest_mut(rem) ==
    LET i == CHOOSE i \in 1..Len(standard_scale) :
                /\ \A j \in 1..Len(standard_scale) :
                      Abs(standard_scale[i] - rem) <= Abs(standard_scale[j] - rem)
                /\ \A j \in (i + 1)..Len(standard_scale) :
                      Abs(standard_scale[j] - rem) > Abs(standard_scale[i] - rem)
    IN  standard_scale[i]

\* min(standard_scale, key=lambda x: abs(x - rem)): the first minimal entry
closest(rem) ==
    LET i == CHOOSE i \in 1..Len(standard_scale) :
                /\ \A j \in 1..Len(standard_scale) :
                      Abs(standard_scale[i] - rem) <= Abs(standard_scale[j] - rem)
                /\ \A j \in 1..(i - 1) :
                      Abs(standard_scale[j] - rem) > Abs(standard_scale[i] - rem)
    IN  standard_scale[i]

SeqToSet(s) == {s[i] : i \in 1..Len(s)}

\* sorted(...) of a set of numbers
RECURSIVE SortedSeq(_)
SortedSeq(S) ==
    IF S = {} THEN <<>>
    ELSE LET m == CHOOSE x \in S : \A y \in S : x <= y
         IN  <<m>> \o SortedSeq(S \ {m})

\* the key of named_scale for the entry u/32 of the scale: "0", "0.125", "1",
\* "1.25" (the integral entries of standard_scale are ints)
ScaleKeyStr(u) == IF u % 32 = 0 THEN IntStr(u \div 32) ELSE FloatStr(u)

\* the value of named_scale: "0" for the key 0, else f"{key}rem"
ScaleValueStr(u) == IF u = 0 THEN <<0>> ELSE ScaleKeyStr(u) \o RemChars

\* the baseline scale left out of the merge
normalize_spacing_scale_mut(spacing_values) ==
    LET used_values == {closest(r) : r \in rem_values(spacing_values)}
        keys        == SortedSeq(used_values)
    IN  [i \in 1..Len(keys) |->
            [key |-> ScaleKeyStr(keys[i]), value |-> ScaleValueStr(keys[i])]]

\* normalize_spacing_scale(spacing_values): named_scale as the list of its
\* items in insertion order
normalize_spacing_scale(spacing_values) ==
    LET used_values == {closest(r) : r \in rem_values(spacing_values)}
        final_scale == SeqToSet(basic_scale) \cup used_values
        keys        == SortedSeq(final_scale)
    IN  [i \in 1..Len(keys) |->
            [key |-> ScaleKeyStr(keys[i]), value |-> ScaleValueStr(keys[i])]]

-----------------------------------------------------------------------------
(* Value Normalizer: colors *)

\* is_grayscale_hex raises on a value that is no string and on a string whose
\* slices int(.., 16) rejects
is_grayscale_hex_raises(c) ==
    \/ c.type # "str"
    \/ LET h == lstrip_hash(c.chars)
       IN  \E i \in {0, 2, 4} : IntHexRaises(Slice2(h, i))

is_grayscale_hex(c) ==
    LET h == lstrip_hash(c.chars)
        r == IntHex(Slice2(h, 0))
        g == IntHex(Slice2(h, 2))
        b == IntHex(Slice2(h, 4))
    IN  Abs(r - g) < 15 /\ Abs(g - b) < 15 /\ Abs(r - b) < 15

\* "#3b82f6"
DefaultBlue == <<HashChar, 3, 11, 8, 2, 15, 6>>

HexStr(a, b, c, d, e, f) == <<HashChar, a, b, c, d, e, f>>

semantic_colors ==
    [success |-> HexStr(1, 0, 11, 9, 8, 1), warning |-> HexStr(15, 5, 9, 14, 0, 11),
     error |-> HexStr(14, 15, 4, 4, 4, 4), info |-> HexStr(3, 11, 8, 2, 15, 6)]

generate_grayscale_scale ==
    ("white" :> HexStr(15, 15, 15, 15, 15, 15)) @@ ("50" :> HexStr(15, 10, 15, 10, 15, 10)) @@
    ("100" :> HexStr(15, 5, 15, 5, 15, 5)) @@ ("200" :> HexStr(14, 5, 14, 5, 14, 5)) @@
    ("300" :> HexStr(13, 4, 13, 4, 13, 4)) @@ ("400" :> HexStr(10, 3, 10, 3, 10, 3)) @@
    ("500" :> HexStr(7, 3, 7, 3, 7, 3)) @@ ("600" :> HexStr(5, 2, 5, 2, 5, 2)) @@
    ("700" :> HexStr(4, 0, 4, 0, 4, 0)) @@ ("800" :> HexStr(2, 6, 2, 6, 2, 6)) @@
    ("900" :> HexStr(1, 7, 1, 7, 1, 7)) @@ ("950" :> HexStr(0, 10, 0, 10, 0, 10)) @@
    ("black" :> HexStr(0, 0, 0, 0, 0, 0))

\* a colors value is a list (of raw values) or something else
normalize_colors_raises(cs) ==
    cs.type = "list" /\ \E i \in 1..Len(cs.items) : is_grayscale_hex_raises(cs.items[i])

IsChromaticHex(c) == ~is_grayscale_hex(c)

\* the last chromatic value taken instead of the first
normalize_colors_mut12(cs) ==
    LET chromatic == IF cs.type = "list" THEN SelectSeq(cs.items, IsChromaticHex) ELSE <<>>
    IN  [primary |-> IF chromatic # <<>>
                     THEN generate_color_scale_from_hex(chromatic[Len(chromatic)].chars)
                     ELSE generate_color_scale_from_hex(DefaultBlue),
         semantic |-> semantic_colors,
         neutral |-> generate_grayscale_scale]

\* the first extracted grayscale value placed in the neutral ramp
normalize_colors_mut13(cs) ==
    LET chromatic == IF cs.type = "list" THEN SelectSeq(cs.items, IsChromaticHex) ELSE <<>>
        grayscale == IF cs.type = "list" THEN SelectSeq(cs.items, is_grayscale_hex) ELSE <<>>
    IN  [primary |-> IF chromatic # <<>>
                     THEN generate_color_scale_from_hex(chromatic[1].chars)
                     ELSE generate_color_scale_from_hex(DefaultBlue),
         semantic |-> semantic_colors,
         neutral |-> IF grayscale # <<>>
                     THEN [generate_grayscale_scale EXCEPT !["500"] = grayscale[1].chars]
                     ELSE generate_grayscale_scale]

normalize_colors(cs) ==
    LET chromatic == IF cs.type = "list" THEN SelectSeq(cs.items, IsChromaticHex) ELSE <<>>
    IN  [primary |-> IF chromatic # <<>>
                     THEN generate_color_scale_from_hex(chromatic[1].chars)
                     ELSE generate_color_scale_from_hex(DefaultBlue),
         semantic |-> semantic_colors,
         neutral |-> generate_grayscale_scale]

-----------------------------------------------------------------------------
(* Value Normalizer: typography and the fixed tables *)

\* the words normalize_typography looks for that occur in family.lower()
Keywords(family) ==
    CASE family = "Helvetica Neue" -> {"helvetica"}
      [] family = "Georgia, serif" -> {"serif"}
      [] family = "Fira Code" -> {"code"}
      [] family = "Open Sans, sans-serif" -> {"sans", "serif"}
      [] family = "Papyrus" -> {}

HasKey(ff, k) == \E i \in 1..Len(ff) : ff[i].key = k

\* the three tests of the loop body, in order, on the dictionary ff
AddFamily(ff, family) ==
    LET kw == Keywords(family)
        f1 == IF ~HasKey(ff, "sans") /\ kw \cap {"sans", "helvetica", "arial", "inter"} # {}
              THEN Append(ff, [key |-> "sans", value |-> family]) ELSE ff
        f2 == IF ~HasKey(f1, "serif") /\ "serif" \in kw /\ "sans" \notin kw
              THEN Append(f1, [key |-> "serif", value |-> family]) ELSE f1
        f3 == IF ~HasKey(f2, "mono") /\ kw \cap {"mono", "courier", "code", "console"} # {}
              THEN Append(f2, [key |-> "mono", value |-> family]) ELSE f2
    IN  f3

RECURSIVE AddFamilies(_, _)
AddFamilies(ff, families) ==
    IF families = <<>> THEN ff
    ELSE AddFamilies(AddFamily(ff, Head(families)), Tail(families))

\* the defaults appended for the keys not found
WithDefaultFamilies(ff) ==
    LET d1 == IF ~HasKey(ff, "sans")
              THEN Append(ff, [key |-> "sans",
                     value |-> "'Inter', -apple-system, BlinkMacSystemFont, 'Segoe UI', sans-serif"])
              ELSE ff
        d2 == IF ~HasKey(d1, "serif")
              THEN Append(d1, [key |-> "serif", value |-> "'Merriweather', Georgia, serif"])
              ELSE d1
        d3 == IF ~HasKey(d2, "mono")
              THEN Append(d2, [key |-> "mono",
                     value |-> "'JetBrains Mono', 'Courier New', monospace"])
              ELSE d2
    IN  d3

font_sizes ==
    ("xs" :> "0.75rem") @@ ("sm" :> "0.875rem") @@ ("base" :> "1rem") @@
    ("lg" :> "1.125rem") @@ ("xl" :> "1.25rem") @@ ("2xl" :> "1.5rem") @@
    ("3xl" :> "1.875rem") @@ ("4xl" :> "2.25rem") @@ ("5xl" :> "3rem") @@
    ("6xl" :> "3.75rem") @@ ("7xl" :> "4.5rem") @@ ("8xl" :> "6rem") @@ ("9xl" :> "8rem")

font_weights ==
    ("thin" :> "100") @@ ("extralight" :> "200") @@ ("light" :> "300") @@
    ("normal" :> "400") @@ ("medium" :> "500") @@ ("semibold" :> "600") @@
    ("bold" :> "700") @@ ("extrabold" :> "800") @@ ("black" :> "900")

line_heights ==
    ("none" :> "1") @@ ("tight" :> "1.25") @@ ("snug" :> "1.375") @@
    ("normal" :> "1.5") @@ ("relaxed" :> "1.625") @@ ("loose" :> "2")

\* typography is a dictionary that may hold the key 'fontFamilies'
normalize_typography(typography) ==
    [fontFamilies |->
        WithDefaultFamilies(
            IF "fontFamilies" \in typography.keys /\ typography.fontFamilies # <<>>
            THEN AddFamilies(<<>>, typography.fontFamilies) ELSE <<>>),
     fontSizes |-> font_sizes,
     fontWeights |-> font_weights,
     lineHeights |-> line_heights]

\* the extracted radii added to the table
normalize_border_radius_mut(radius_values) ==
    ("none" :> "0") @@ ("sm" :> "0.125rem") @@ ("base" :> "0.25rem") @@
    ("md" :> IF radius_values = <<>> THEN "0.375rem" ELSE "extracted") @@
    ("lg" :> "0.5rem") @@ ("xl" :> "0.75rem") @@
    ("2xl" :> "1rem") @@ ("3xl" :> "1.5rem") @@ ("full" :> "9999px")

normalize_border_radius(radius_values) ==
    ("none" :> "0") @@ ("sm" :> "0.125rem") @@ ("base" :> "0.25rem") @@
    ("md" :> "0.375rem") @@ ("lg" :> "0.5rem") @@ ("xl" :> "0.75rem") @@
    ("2xl" :> "1rem") @@ ("3xl" :> "1.5rem") @@ ("full" :> "9999px")

normalize_shadows(shadow_values) ==
    ("sm" :> "0 1px 2px 0 rgb(0 0 0 / 0.05)") @@
    ("base" :> "0 1px 3px 0 rgb(0 0 0 / 0.1), 0 1px 2px -1px rgb(0 0 0 / 0.1)") @@
    ("md" :> "0 4px 6px -1px rgb(0 0 0 / 0.1), 0 2px 4px -2px rgb(0 0 0 / 0.1)") @@
    ("lg" :> "0 10px 15px -3px rgb(0 0 0 / 0.1), 0 4px 6px -4px rgb(0 0 0 / 0.1)") @@
    ("xl" :> "0 20px 25px -5px rgb(0 0 0 / 0.1), 0 8px 10px -6px rgb(0 0 0 / 0.1)") @@
    ("2xl" :> "0 25px 50px -12px rgb(0 0 0 / 0.25)") @@
    ("inner" :> "inset 0 2px 4px 0 rgb(0 0 0 / 0.05)") @@
    ("none" :> "0 0 #0000")

breakpoints ==
    ("sm" :> "640px") @@ ("md" :> "768px") @@ ("lg" :> "1024px") @@
    ("xl" :> "1280px") @@ ("2xl" :> "1536px")

transitions ==
    [duration |-> [fast |-> "150ms", base |-> "300ms", slow |-> "500ms"],
     easing |-> [linear |-> "linear", in |-> "cubic-bezier(0.4, 0, 1, 1)",
                 out |-> "cubic-bezier(0, 0, 0.2, 1)",
                 inOut |-> "cubic-bezier(0.4, 0, 0.2, 1)"]]

zIndex ==
    ("0" :> "0") @@ ("10" :> "10") @@ ("20" :> "20") @@ ("30" :> "30") @@
    ("40" :> "40") @@ ("50" :> "50") @@ ("auto" :> "auto")

-----------------------------------------------------------------------------
(* Token Assembler: normalize_design_tokens *)

\* extracted_data.get(key, default)
GetColors(doc) == IF "colors" \in doc.keys THEN doc.colors ELSE [type |-> "list", items |-> <<>>]

GetTypography(doc) ==
    IF "typography" \in doc.keys THEN doc.typography ELSE [keys |-> {}, fontFamilies |-> <<>>]

GetSpacing(doc) == IF "spacing" \in doc.keys THEN doc.spacing ELSE <<>>

GetBorderRadius(doc) == IF "borderRadius" \in doc.keys THEN doc.borderRadius ELSE <<>>

GetShadows(doc) == IF "shadows" \in doc.keys THEN doc.shadows ELSE <<>>

\* no handler surrounds the calls: an exception of normalize_colors or
\* normalize_spacing_scale leaves normalize_design_tokens
normalize_design_tokens_raises(doc) ==
    \/ normalize_colors_raises(GetColors(doc))
    \/ normalize_spacing_scale_raises(GetSpacing(doc))

\* spacing computed and inserted before typography
normalize_design_tokens_mut(doc) ==
    [keys |-> <<"colors", "spacing", "typography", "borderRadius", "shadows",
                "breakpoints", "transitions", "zIndex">>,
     colors |-> normalize_colors(GetColors(doc)),
     typography |-> normalize_typography(GetTypography(doc)),
     spacing |-> normalize_spacing_scale(GetSpacing(doc)),
     borderRadius |-> normalize_border_radius(GetBorderRadius(doc)),
     shadows |-> normalize_shadows(GetShadows(doc)),
     breakpoints |-> breakpoints,
     transitions |-> transitions,
     zIndex |-> zIndex]

\* tokens, with the order in which its keys are inserted
normalize_design_tokens(doc) ==
    [keys |-> <<"colors", "typography", "spacing", "borderRadius", "shadows",
                "breakpoints", "transitions", "zIndex">>,
     colors |-> normalize_colors(GetColors(doc)),
     typography |-> normalize_typography(GetTypography(doc)),
     spacing |-> normalize_spacing_scale(GetSpacing(doc)),
     borderRadius |-> normalize_border_radius(GetBorderRadius(doc)),
     shadows |-> normalize_shadows(GetShadows(doc)),
     breakpoints |-> breakpoints,
     transitions |-> transitions,
     zIndex |-> zIndex]

NoTokens == [keys |-> <<>>]

EmptyDocument ==
    [keys |-> {}, colors |-> [type |-> "list", items |-> <<>>],
     typography |-> [keys |-> {}, fontFamilies |-> <<>>],
     spacing |-> <<>>, borderRadius |-> <<>>, shadows |-> <<>>]

-----------------------------------------------------------------------------
(* Result dictionaries of extract_colors_from_image and the command line *)

\* A dictionary is a record with the set of its keys; a field whose key is
\* absent holds a placeholder.
NoScales == [none |-> TRUE]

SuccessResult(k, color_freq, cat) ==
    [keys |-> {"total_colors", "all_colors", "categorized"},
     total_colors |-> k, all_colors |-> color_freq, categorized |-> cat,
     error |-> "", suggestion |-> "", color_scales |-> NoScales]

\* the truth value of None is false, that of a cluster dictionary is true
Truthy(x) == x # None

\* __main__: if 'error' not in result and result['categorized']['primary']
main_color_scales(res) ==
    IF "error" \notin res.keys /\ Truthy(res.categorized.primary)
    THEN [res EXCEPT
            !.keys = @ \cup {"color_scales"},
            !.color_scales = [primary |-> generate_color_scale(res.categorized.primary.hex)]]
    ELSE res

\* the two early returns and the generic handler of extract_colors_from_image
FileNotFoundResult ==
    [keys |-> {"error", "suggestion"},
     error |-> "File not found", suggestion |-> "Check the file path is correct",
     total_colors |-> 0, all_colors |-> <<>>, categorized |-> None, color_scales |-> NoScales]

CannotOpenResult ==
    [keys |-> {"error", "suggestion"},
     error |-> "Cannot open image",
     suggestion |-> "Ensure file is a valid image format (PNG, JPG, etc.)",
     total_colors |-> 0, all_colors |-> <<>>, categorized |-> None, color_scales |-> NoScales]

ExceptionResult_mut(msg) ==
    [keys |-> {"error", "total_colors"}, error |-> msg, suggestion |-> "",
     total_colors |-> 0, all_colors |-> <<>>, categorized |-> None, color_scales |-> NoScales]

\* except Exception as e: return {'error': str(e)}
ExceptionResult(msg) ==
    [keys |-> {"error"}, error |-> msg, suggestion |-> "",
     total_colors |-> 0, all_colors |-> <<>>, categorized |-> None, color_scales |-> NoScales]

NoResult == [keys |-> {}, error |-> "", suggestion |-> "",
             total_colors |-> 0, all_colors |-> <<>>, categorized |-> None,
             color_scales |-> NoScales]

-----------------------------------------------------------------------------
(* Color Quantizer: extract_colors_from_image *)

\* The pixel array is held as a bag over a palette: Palette[i] occurs bag[i]
\* times. The order of the pixels only matters to the clustering routine,
\* whose result is a nondeterministic choice here.
Palette == << <<0, 0, 0>>, <<255, 255, 255>>, <<255, 0, 0>>,
              <<101, 108, 115>>, <<100, 108, 116>> >>

PaletteIdx == 1..Len(Palette)

EmptyBag == [i \in PaletteIdx |-> 0]

RECURSIVE SumUpTo(_, _)
SumUpTo(f, n) == IF n = 0 THEN 0 ELSE f[n] + SumUpTo(f, n - 1)

BagSize(bag) == SumUpTo(bag, Len(Palette))

\* int(len(pixels) * sample_fraction), sample_fraction in tenths
SampleSize(n, frac) == (n * frac) \div 10

\* np.random.choice(len(pixels), sample_size, replace=False): any sub-bag
SubBags(bag, size) ==
    {b \in [PaletteIdx -> 0..size] :
        /\ \A i \in PaletteIdx : b[i] <= bag[i]
        /\ BagSize(b) = size}

\* pixels[~(all(pixels == [0,0,0]) | all(pixels == [255,255,255]))]
RemoveBlackWhite(bag) ==
    [i \in PaletteIdx |->
        IF Palette[i] = <<0, 0, 0>> \/ Palette[i] = <<255, 255, 255>> THEN 0 ELSE bag[i]]

Present(bag) == {i \in PaletteIdx : bag[i] > 0}

\* KMeans(n_clusters=k).fit(X) raises on k < 1 and on fewer samples than k
FitRaises(bag, k) == k < 1 \/ BagSize(bag) < k

\* labels_: equal samples get equal labels
Labelings(bag, k) == [Present(bag) -> 0..(k - 1)]

LabelCount(bag, lab, i) ==
    SumUpTo([c \in PaletteIdx |-> IF c \in DOMAIN lab /\ lab[c] = i THEN bag[c] ELSE 0],
            Len(Palette))

ChannelSum(bag, lab, i, ch) ==
    SumUpTo([c \in PaletteIdx |->
                IF c \in DOMAIN lab /\ lab[c] = i THEN bag[c] * Palette[c][ch] ELSE 0],
            Len(Palette))

\* cluster_centers_[i] as the fraction num / den: the mean of the members, and
\* for a cluster without members the sample Palette[e]
Center(bag, lab, i, e) ==
    IF LabelCount(bag, lab, i) = 0
    THEN [num |-> Palette[e], den |-> 1]
    ELSE [num |-> <<ChannelSum(bag, lab, i, 1), ChannelSum(bag, lab, i, 2),
                    ChannelSum(bag, lab, i, 3)>>,
          den |-> LabelCount(bag, lab, i)]

\* round(a / b) to the nearest integer, a half to the even neighbour
RoundDiv(a, b) ==
    LET q == a \div b
        r == a % b
    IN  IF 2 * r > b \/ (2 * r = b /\ q % 2 = 1) THEN q + 1 ELSE q

Percentage_mut(count, total) == 100 * RoundDiv(count * 100, total)

\* round((count / len(labels)) * 100, 2), in hundredths (the quotient is
\* never half-way between two hundredths for fewer than 32 labels)
Percentage(count, total) == RoundDiv(count * 10000, total)

\* round(a / b) where the double that is rounded carries the error of the
\* float arithmetic before it: a quotient half-way between two integers
\* goes up or down with that error (up tells which)
RoundFloatDiv(a, b, up) ==
    IF 2 * (a % b) = b THEN (IF up THEN a \div b + 1 ELSE a \div b) ELSE RoundDiv(a, b)

\* the brightness of a centre is half-way between two hundredths
BrightnessTie(center) ==
    2 * (calculate_brightness(center.num) % (10 * center.den)) = 10 * center.den

\* the dictionary appended to color_freq for one cluster
ColorRecord(center, count, total, up) ==
    LET rgb == <<center.num[1] \div center.den, center.num[2] \div center.den,
                 center.num[3] \div center.den>>
    IN  [rgb |-> rgb,
         hex |-> rgb_to_hex(rgb),
         percentage |-> Percentage(count, total),
         brightness |-> RoundFloatDiv(calculate_brightness(center.num), 10 * center.den, up),
         is_grayscale |-> is_grayscale_at(center.num, center.den)]

\* color_freq.sort(key=percentage, reverse=True) is stable
RECURSIVE InsertByPercentage(_, _)
InsertByPercentage(sorted, c) ==
    IF sorted = <<>> THEN <<c>>
    ELSE IF c.percentage > Head(sorted).percentage THEN <<c>> \o sorted
    ELSE <<Head(sorted)>> \o InsertByPercentage(Tail(sorted), c)

\* the sort left out
SortByPercentage_mut(s) == s

RECURSIVE SortByPercentage(_)
SortByPercentage(s) ==
    IF s = <<>> THEN <<>>
    ELSE InsertByPercentage(SortByPercentage(SubSeq(s, 1, Len(s) - 1)), s[Len(s)])

ColorFreq(bag, k, lab, e, ups) ==
    SortByPercentage([j \in 1..k |->
        ColorRecord(Center(bag, lab, j - 1, e), LabelCount(bag, lab, j - 1), BagSize(bag),
                    ups[j])])

\* What one call of extract_colors_from_image does: the external calls it
\* makes, the sample it clusters and the value it returns. sub is the
\* outcome of the random choice, lab and e that of the clustering, ups that
\* of the float arithmetic.
ExtractOutcome(f, img, k, frac, sub, lab, e, ups) ==
    IF f = "missing"
    THEN [calls |-> <<"exists">>, samples |-> EmptyBag, result |-> FileNotFoundResult]
    ELSE IF f = "unidentified"
    THEN [calls |-> <<"exists", "open">>, samples |-> EmptyBag, result |-> CannotOpenResult]
    ELSE IF f = "truncated"
    THEN [calls |-> <<"exists", "open", "convert">>, samples |-> EmptyBag,
          result |-> ExceptionResult("image file is truncated")]
    ELSE LET sampled == IF frac < 10 THEN sub ELSE img
             kept    == RemoveBlackWhite(sampled)
             before  == IF frac < 10 THEN <<"exists", "open", "convert", "choice">>
                                     ELSE <<"exists", "open", "convert">>
         IN  IF FitRaises(kept, k)
             THEN [calls |-> before \o <<"fit">>, samples |-> kept,
                   result |-> ExceptionResult("KMeans.fit failed")]
             ELSE [calls |-> before \o <<"fit">>, samples |-> kept,
                   result |-> LET cf == ColorFreq(kept, k, lab, e, ups)
                              IN  SuccessResult(k, cf, categorize_colors(cf))]

\* the ways the roundings of the brightness can go: only a tie is open
Roundings(bag, k, lab, e) ==
    {ups \in [1..k -> BOOLEAN] :
        \A j \in 1..k : ups[j] => BrightnessTie(Center(bag, lab, j - 1, e))}

\* the choices open to one call
Outcomes(f, img, k, frac) ==
    IF f # "image" THEN {ExtractOutcome(f, img, k, frac, EmptyBag, <<>>, 1, <<>>)}
    ELSE LET subs == IF frac < 10 THEN SubBags(img, SampleSize(BagSize(img), frac))
                                  ELSE {img}
         IN  UNION { LET kept == RemoveBlackWhite(sub)
                     IN  IF FitRaises(kept, k)
                         THEN {ExtractOutcome(f, img, k, frac, sub, <<>>, 1, <<>>)}
                         ELSE UNION {{ExtractOutcome(f, img, k, frac, sub, lab, e, ups) :
                                        ups \in Roundings(kept, k, lab, e)} :
                                     lab \in Labelings(kept, k), e \in Present(kept)}
                   : sub \in subs }

(* the state of a component that a specification does not exercise *)
NoScale == <<>>

ColorIdle ==
    /\ base_rgb = <<0, 0, 0>>
    /\ base_hex = <<>>
    /\ scale = NoScale
    /\ scale_n = NoScale
    /\ gray = FALSE

CatIdle ==
    /\ colors = <<>>
    /\ categorized = None

ExIdle ==
    /\ file = "image"
    /\ image = EmptyBag
    /\ num_colors = 1
    /\ sample_fraction = 10
    /\ samples = EmptyBag
    /\ calls = <<>>
    /\ result = NoResult
    /\ payload = NoResult
    /\ raised = FALSE

NormIdle ==
    /\ extracted_data = EmptyDocument
    /\ tokens = NoTokens

PxIdle ==
    /\ px_value = Str(<<>>)
    /\ px_result = Str(<<>>)

\* no command line is running: the functions are called from other code
CliIdle ==
    /\ argc = 2
    /\ input_file = "valid"
    /\ exit_status = -1

\* extract_design_system is not running
NoSiteResult ==
    [keys |-> {}, error |-> <<>>, suggestion |-> "", url |-> "", colors |-> <<>>,
     spacing |-> <<>>, extracted |-> <<>>]

NoPage == [colors |-> <<>>, spacing |-> <<>>]

SiteIdle ==
    /\ url = ""
    /\ page = NoPage
    /\ browser = "None"
    /\ nav_error = ""
    /\ exc = ""
    /\ site_calls = <<>>
    /\ site_result = NoSiteResult

\* normalize_spacing_scale is not called on its own
SpacingIdle ==
    /\ spacing_list = <<>>
    /\ named_scale = <<>>

Files == {"missing", "unidentified", "truncated", "image"}

SmallImages == {b \in [PaletteIdx -> 0..MaxPixels] : BagSize(b) \in 1..MaxPixels}

Times10(bag) == [i \in PaletteIdx |-> 10 * bag[i]]

LargeImages == {Times10(b) : b \in {c \in SmallImages : BagSize(c) <= MaxTens}}

DefaultFraction == 1

\* num_colors=16, the default of the parameter and of the command line
DefaultNumColors == 16

\* what the command line prints when no argument is given
Usage(text) == [keys |-> {}, usage |-> text]

\* the arguments <<image_path, the pixels of the image, num_colors,
\* sample_fraction>> of the calls of the model
ExtractArgs ==
    LET ks == (0..MaxK) \cup {DefaultNumColors}
        fs == {DefaultFraction, 5, 10}
    IN  ((Files \ {"image"}) \X {EmptyBag} \X ks \X fs)
        \cup ({"image"} \X SmallImages \X ks \X fs)
        \cup ({"image"} \X LargeImages \X ks \X {DefaultFraction})

\* Outcomes for each of these arguments, as a table
OutcomeTable == [a \in ExtractArgs |-> Outcomes(a[1], a[2], a[3], a[4])]

\* sys.argv holds the script name, the image path when argc > 1 and the
\* cluster count when argc > 2
InitExtract ==
    /\ pc = "start"
    /\ SiteIdle
    /\ SpacingIdle
    /\ OutcomeTable = OutcomeTable    \* the table is computed here, once
    /\ argc \in 1..3
    /\ \E a \in ExtractArgs :
          /\ argc <= 2 => a[3] = DefaultNumColors
          /\ file = a[1]
          /\ image = a[2]
          /\ num_colors = a[3]
          /\ sample_fraction = a[4]
    /\ input_file = "valid"
    /\ exit_status = -1
    /\ samples = EmptyBag
    /\ calls = <<>>
    /\ result = NoResult
    /\ payload = NoResult
    /\ raised = FALSE
    /\ ColorIdle
    /\ CatIdle
    /\ NormIdle
    /\ PxIdle

\* a caller invokes extract_colors_from_image(image_path, num_colors, sample_fraction)
CallExtract ==
    /\ pc = "start"
    /\ \E o \in OutcomeTable[<<file, image, num_colors, sample_fraction>>] :
          /\ calls' = o.calls
          /\ samples' = o.samples
          /\ result' = o.result
    /\ raised' = FALSE
    /\ pc' = "returned"
    /\ UNCHANGED <<exInputs, payload, colorVars, catVars, normVars, pxVars, cliVars, siteVars, spacingVars>>

\* the caller repeats the call with the same arguments. The decoder, the
\* filter and KMeans(random_state=42) compute the same values from the same
\* pixel array; np.random.choice, which no seed drives, draws a new sample
\* when sample_fraction < 1.0.
CallExtractAgain ==
    /\ pc = "returned"
    /\ IF file # "image" \/ sample_fraction >= 10
       THEN UNCHANGED <<calls, samples, result>>
       ELSE \E o \in OutcomeTable[<<file, image, num_colors, sample_fraction>>] :
               /\ calls' = o.calls
               /\ samples' = o.samples
               /\ result' = o.result
    /\ raised' = FALSE
    /\ pc' = "returned_again"
    /\ UNCHANGED <<exInputs, payload, colorVars, catVars, normVars, pxVars, cliVars, siteVars, spacingVars>>

\* __main__: without an argument the usage is printed and the exit status is
\* 1; else the call is made with the default sample_fraction, color_scales
\* is added, the payload is printed and the script ends with status 0
RunMain ==
    /\ pc = "start"
    /\ sample_fraction = DefaultFraction
    /\ IF argc < 2
       THEN /\ payload' = Usage("Usage: python extract_image_colors.py <image_path> [num_colors]")
            /\ exit_status' = 1
            /\ pc' = "usage"
            /\ UNCHANGED <<calls, samples, result>>
       ELSE /\ \E o \in OutcomeTable[<<file, image,
                                          IF argc > 2 THEN num_colors ELSE DefaultNumColors,
                                          DefaultFraction>>] :
                  /\ calls' = o.calls
                  /\ samples' = o.samples
                  /\ result' = o.result
                  /\ payload' = main_color_scales(o.result)
            /\ exit_status' = 0
            /\ pc' = "printed"
    /\ raised' = FALSE
    /\ UNCHANGED <<exInputs, colorVars, catVars, normVars, pxVars, cliInputs, siteVars, spacingVars>>

NextExtract == CallExtract \/ CallExtractAgain \/ RunMain

SpecExtract == InitExtract /\ [][NextExtract]_vars

-----------------------------------------------------------------------------
(* normalize_design_tokens called on an extraction document *)

\* "#ff0000", "808080", "#3B82F6", "rgb(255, 0, 0)", "#fff"
ColorStrings ==
    {<<HashChar, 15, 15, 0, 0, 0, 0>>,
     <<8, 0, 8, 0, 8, 0>>,
     <<HashChar, 3, 17, 8, 2, 21, 6>>,
     <<CharR, OtherChar, 11, OtherChar, 2, 5, 5, OtherChar, OtherChar, 0, OtherChar,
       OtherChar, 0, OtherChar>>,
     <<HashChar, 15, 15, 15>>}

\* "32px", "5px", "500px", "1.2.3px", "1.5rem", "auto" and the number 8
SpacingValues ==
    {Str(<<3, 2, CharP, CharX>>),
     Str(<<5, CharP, CharX>>),
     Str(<<5, 0, 0, CharP, CharX>>),
     Str(<<1, DotChar, 2, DotChar, 3, CharP, CharX>>),
     Str(<<1, DotChar, 5, CharR, CharE, CharM>>),
     Str(<<10, OtherChar, OtherChar, OtherChar>>),
     Num(8)}

FontFamilies ==
    {"Helvetica Neue", "Georgia, serif", "Fira Code", "Open Sans, sans-serif", "Papyrus"}

ListsOf(S, n) == UNION {[1..m -> S] : m \in 0..n}

\* a colors value: a list of strings, or a value that is no list (a single
\* string, null)
ColorsValues(n) ==
    {[type |-> "list", items |-> l] : l \in ListsOf({Str(c) : c \in ColorStrings}, n)}
    \cup {[type |-> "str", items |-> <<>>], [type |-> "null", items |-> <<>>]}

TypographyValues(n) ==
    {[keys |-> {}, fontFamilies |-> <<>>]} \cup
    {[keys |-> {"fontFamilies"}, fontFamilies |-> l] : l \in ListsOf(FontFamilies, n)}

OtherValues == {<<>>, <<Str(<<4, CharP, CharX>>)>>}

\* the file named on the command line: absent, no JSON, or a JSON
\* document (extracted_data is what json.load returns for it)
InputFiles == {"missing", "invalid", "valid"}

\* the documents of the model: at most one of the colors, fontFamilies and
\* spacing lists has more than one entry
InitNorm ==
    /\ pc = "start"
    /\ SiteIdle
    /\ SpacingIdle
    /\ \E ks \in SUBSET {"colors", "typography", "spacing", "borderRadius"},
          long \in {"colors", "typography", "spacing"}, o \in OtherValues :
       \E c \in ColorsValues(IF long = "colors" THEN MaxColors ELSE 1),
          t \in TypographyValues(IF long = "typography" THEN MaxFamilies ELSE 1),
          sp \in ListsOf(SpacingValues, IF long = "spacing" THEN MaxSpacing ELSE 1) :
          /\ "colors" \notin ks => c = [type |-> "list", items |-> <<>>]
          /\ "typography" \notin ks => t = [keys |-> {}, fontFamilies |-> <<>>]
          /\ "spacing" \notin ks => sp = <<>>
          /\ "borderRadius" \notin ks => o = <<>>
          /\ extracted_data =
                [keys |-> IF "borderRadius" \in ks THEN ks \cup {"shadows"} ELSE ks,
                 colors |-> c, typography |-> t, spacing |-> sp,
                 borderRadius |-> o, shadows |-> o]
    /\ tokens = NoTokens
    /\ raised = FALSE
    /\ argc \in 1..2
    /\ input_file \in InputFiles
    /\ (argc < 2 \/ input_file # "valid") => extracted_data = EmptyDocument
    /\ exit_status = -1
    /\ file = "image"
    /\ image = EmptyBag
    /\ num_colors = 1
    /\ sample_fraction = 10
    /\ samples = EmptyBag
    /\ calls = <<>>
    /\ result = NoResult
    /\ payload = NoResult
    /\ ColorIdle
    /\ CatIdle
    /\ PxIdle

\* a caller invokes normalize_design_tokens(extracted_data)
CallNormalize ==
    /\ pc = "start"
    /\ IF normalize_design_tokens_raises(extracted_data)
       THEN raised' = TRUE /\ tokens' = NoTokens
       ELSE raised' = FALSE /\ tokens' = normalize_design_tokens(extracted_data)
    /\ pc' = "normalized"
    /\ UNCHANGED <<extracted_data, exInputs, samples, calls, result, payload,
                   colorVars, catVars, pxVars, cliVars, siteVars, spacingVars>>

\* the keys a token document can have, in the order of sorted()
SortedFamilies ==
    <<"borderRadius", "breakpoints", "colors", "shadows", "spacing", "transitions",
      "typography", "zIndex">>

\* yaml.dump(doc, default_flow_style=False, sort_keys=sort_keys): the order of
\* the top-level keys of the text
yaml_dump(doc, sort_keys) ==
    IF sort_keys
    THEN [doc EXCEPT !.keys = SelectSeq(SortedFamilies,
                                        LAMBDA k : \E i \in 1..Len(doc.keys) : doc.keys[i] = k)]
    ELSE doc

\* __main__ of normalize_tokens.py: usage and status 1 without an argument;
\* open, json.load and normalize_design_tokens are not guarded, so an
\* exception of any of them ends the script with a traceback and status 1;
\* else the tokens are printed as YAML in insertion order
RunNormalizeMain ==
    /\ pc = "start"
    /\ IF argc < 2
       THEN /\ payload' = Usage("Usage: python normalize_tokens.py <extracted_data.json>")
            /\ exit_status' = 1
            /\ raised' = FALSE
            /\ pc' = "usage"
            /\ UNCHANGED tokens
       ELSE IF input_file # "valid" \/ normalize_design_tokens_raises(extracted_data)
       THEN /\ raised' = TRUE
            /\ exit_status' = 1
            /\ pc' = "traceback"
            /\ UNCHANGED <<tokens, payload>>
       ELSE /\ tokens' = normalize_design_tokens(extracted_data)
            /\ payload' = yaml_dump(tokens', FALSE)
            /\ raised' = FALSE
            /\ exit_status' = 0
            /\ pc' = "dumped"
    /\ UNCHANGED <<extracted_data, exInputs, samples, calls, result,
                   colorVars, catVars, pxVars, cliInputs, siteVars, spacingVars>>

NextNorm == CallNormalize \/ RunNormalizeMain

SpecNorm == InitNorm /\ [][NextNorm]_vars

-----------------------------------------------------------------------------
(* Colour functions called on a base colour *)

ChanSamples == {c \in 0..255 : c % ChanStride = 0} \cup {128, 128 + GrayThreshold - 1, 255}

\* the hex string a caller writes for a colour: with or without '#',
\* digits a-f in lower or upper case
Upper(ch) == IF ch \in 10..15 THEN ch + 6 ELSE ch

WriteHex(rgb, hash, upper) ==
    LET low == Fmt02x(rgb[1]) \o Fmt02x(rgb[2]) \o Fmt02x(rgb[3])
        dig == IF upper THEN [i \in 1..6 |-> Upper(low[i])] ELSE low
    IN  IF hash THEN <<HashChar>> \o dig ELSE dig

InitColor ==
    /\ pc = "start"
    /\ SiteIdle
    /\ SpacingIdle
    /\ base_rgb \in (0..255) \X ChanSamples \X ChanSamples
    /\ \E hash \in BOOLEAN, upper \in BOOLEAN : base_hex = WriteHex(base_rgb, hash, upper)
    /\ scale = NoScale
    /\ scale_n = NoScale
    /\ gray = FALSE
    /\ CatIdle
    /\ ExIdle
    /\ NormIdle
    /\ PxIdle
    /\ CliIdle

CallGenerateColorScale ==
    /\ pc = "start"
    /\ ~hex_to_rgb_raises(base_hex)
    /\ scale' = generate_color_scale(base_hex)
    /\ pc' = "scale"
    /\ UNCHANGED <<base_rgb, base_hex, scale_n, gray, catVars, exVars, normVars, pxVars, cliVars, siteVars, spacingVars>>

CallGenerateColorScaleFromHex ==
    /\ pc = "start"
    /\ ~hex_to_rgb_raises(base_hex)
    /\ scale_n' = generate_color_scale_from_hex(base_hex)
    /\ pc' = "scale_n"
    /\ UNCHANGED <<base_rgb, base_hex, scale, gray, catVars, exVars, normVars, pxVars, cliVars, siteVars, spacingVars>>

CallIsGrayscale ==
    /\ pc = "start"
    /\ gray' = is_grayscale(base_rgb)
    /\ pc' = "gray"
    /\ UNCHANGED <<base_rgb, base_hex, scale, scale_n, catVars, exVars, normVars, pxVars, cliVars, siteVars, spacingVars>>

NextColor == CallGenerateColorScale \/ CallGenerateColorScaleFromHex \/ CallIsGrayscale

SpecColor == InitColor /\ [][NextColor]_vars

-----------------------------------------------------------------------------
(* categorize_colors called on a list of cluster records *)

\* percentage and brightness are held in hundredths (both are rounded to
\* two decimals when a record is built)
Round2OfThousandths(t) ==
    LET q == t \div 10
        r == t % 10
    IN  IF r > 5 \/ (r = 5 /\ q % 2 = 1) THEN q + 1 ELSE q

ClusterOf(rgb, pct) ==
    [rgb |-> rgb, hex |-> rgb_to_hex(rgb), percentage |-> pct,
     brightness |-> Round2OfThousandths(calculate_brightness(rgb)),
     is_grayscale |-> is_grayscale(rgb)]

PaletteRgb == {<<200, 50, 50>>, <<40, 60, 200>>, <<200, 200, 200>>, <<50, 50, 50>>}

PalettePct == {300, 500, 600, 3700, 6000}

ClusterUniverse == {ClusterOf(rgb, pct) : rgb \in PaletteRgb, pct \in PalettePct}

ClusterLists == UNION {[1..n -> ClusterUniverse] : n \in 0..MaxClusters}

InitCat ==
    /\ pc = "start"
    /\ SiteIdle
    /\ SpacingIdle
    /\ colors \in ClusterLists
    /\ categorized = None
    /\ ColorIdle
    /\ ExIdle
    /\ NormIdle
    /\ PxIdle
    /\ CliIdle

CallCategorizeColors ==
    /\ pc = "start"
    /\ categorized' = categorize_colors(colors)
    /\ pc' = "categorized"
    /\ UNCHANGED <<colors, colorVars, exVars, normVars, pxVars, cliVars, siteVars, spacingVars>>

NextCat == CallCategorizeColors

SpecCat == InitCat /\ [][NextCat]_vars

-----------------------------------------------------------------------------
(* px_to_rem called on a raw value *)

\* "32", "16", "5", "0", "500", "0.5", "1.5", "24", "", ".", "1.2.3"
NumberStrings ==
    {<<3, 2>>, <<1, 6>>, <<5>>, <<0>>, <<5, 0, 0>>, <<0, DotChar, 5>>,
     <<1, DotChar, 5>>, <<2, 4>>, <<>>, <<DotChar>>,
     <<1, DotChar, 2, DotChar, 3>>}

\* "px", "", "rem", "em", "p", "pxx", "px solid", "PX"-like (other characters)
UnitStrings ==
    {<<CharP, CharX>>, <<>>, RemChars, <<CharE, CharM>>, <<CharP>>,
     <<CharP, CharX, CharX>>, <<CharP, CharX, OtherChar, OtherChar>>,
     <<OtherChar, OtherChar>>}

\* a leading blank or sign, or none
LeadStrings == {<<>>, <<OtherChar>>}

PxValues ==
    {Str(l \o n \o u) : l \in LeadStrings, n \in NumberStrings, u \in UnitStrings}
    \cup {Num(0), Num(16), Num(32)}

InitPx ==
    /\ pc = "start"
    /\ SiteIdle
    /\ SpacingIdle
    /\ px_value \in PxValues
    /\ px_result = Str(<<>>)
    /\ ColorIdle
    /\ CatIdle
    /\ ExIdle
    /\ NormIdle
    /\ CliIdle

\* a caller invokes px_to_rem(px_value) with the default base
CallPxToRem ==
    /\ pc = "start"
    /\ IF px_to_rem_raises(px_value)
       THEN raised' = TRUE /\ px_result' = px_result
       ELSE raised' = FALSE /\ px_result' = px_to_rem(px_value)
    /\ pc' = "px"
    /\ UNCHANGED <<px_value, exInputs, samples, calls, result, payload,
                   colorVars, catVars, normVars, cliVars, siteVars, spacingVars>>

NextPx == CallPxToRem

SpecPx == InitPx /\ [][NextPx]_vars

-----------------------------------------------------------------------------
(* Value Normalizer: normalize_spacing_scale called on its own *)

InitSpacing ==
    /\ pc = "start"
    /\ spacing_list \in ListsOf(SpacingValues, MaxSpacing + 1)
    /\ named_scale = <<>>
    /\ ColorIdle
    /\ CatIdle
    /\ ExIdle
    /\ NormIdle
    /\ PxIdle
    /\ CliIdle
    /\ SiteIdle

\* a caller invokes normalize_spacing_scale(spacing_list): it returns
\* named_scale, or the exception of a value leaves it
CallNormalizeSpacingScale ==
    /\ pc = "start"
    /\ IF normalize_spacing_scale_raises(spacing_list)
       THEN pc' = "spacing_raised" /\ named_scale' = named_scale
       ELSE pc' = "spacing_scale" /\ named_scale' = normalize_spacing_scale(spacing_list)
    /\ UNCHANGED <<spacing_list, colorVars, catVars, exVars, normVars, pxVars, cliVars,
                   siteVars>>

NextSpacing == CallNormalizeSpacingScale

SpecSpacing == InitSpacing /\ [][NextSpacing]_vars

-----------------------------------------------------------------------------
(* Website sampler: extract_design_system *)

\* a colour string of a computed style: "rgb(r, g, b)", "rgba(r, g, b, a)",
\* or a string the pattern of rgb_to_hex does not match, "color(srgb r g b)"
CssColor(fn, r, g, b) == [fn |-> fn, r |-> r, g |-> g, b |-> b]

\* rgb_to_hex(rgb_string) of extract_website_design.py: f"#{r:02x}{g:02x}{b:02x}"
\* when the pattern matches, else the string itself (computed styles hold
\* no string that starts with '#')
site_rgb_to_hex(c) ==
    IF c.fn \in {"rgb", "rgba"}
    THEN [fn |-> "hex", r |-> c.r, g |-> c.g, b |-> c.b]
    ELSE c

\* the place of a string in sorted(): '#' precedes every letter, and two hex
\* strings compare as their digits do
SiteColorKey(c) ==
    IF c.fn = "hex" THEN 65536 * c.r + 256 * c.g + c.b
    ELSE 16777216 + 65536 * c.r + 256 * c.g + c.b

\* normalize_colors(colors) of extract_website_design.py
site_normalize_colors(cs) ==
    LET hex_colors == {site_rgb_to_hex(cs[i]) : i \in 1..Len(cs)}
        keys       == SortedSeq({SiteColorKey(c) : c \in hex_colors})
    IN  [i \in 1..Len(keys) |-> CHOOSE c \in hex_colors : SiteColorKey(c) = keys[i]]

\* the order of str: a proper prefix first, else the first differing character
RECURSIVE StrLess(_, _)
StrLess(a, b) ==
    IF a = <<>> THEN b # <<>>
    ELSE IF b = <<>> THEN FALSE
    ELSE IF Head(a) # Head(b) THEN Head(a) < Head(b)
    ELSE StrLess(Tail(a), Tail(b))

\* sorted(list(set(spacing)))
RECURSIVE SortedStrings(_)
SortedStrings(S) ==
    IF S = {} THEN <<>>
    ELSE LET m == CHOOSE x \in S : \A y \in S \ {x} : StrLess(x, y)
         IN  <<m>> \o SortedStrings(S \ {m})

\* the six extraction steps, in the order of lines 274-279
ExtractionSteps ==
    <<"extract_colors_from_styles", "extract_typography", "extract_spacing",
      "extract_border_radius", "extract_shadows", "extract_components">>

\* the result dictionary of lines 284-293
SiteResult(u, pg) ==
    [keys |-> {"url", "colors", "typography", "spacing", "borderRadius", "shadows",
               "components", "viewport"},
     error |-> <<>>, suggestion |-> "", url |-> u,
     colors |-> site_normalize_colors(pg.colors),
     spacing |-> SortedStrings(SeqToSet(pg.spacing)),
     extracted |-> ExtractionSteps]

\* the second message taken for the first
CannotAccessResult_mut(first, second) ==
    [NoSiteResult EXCEPT !.keys = {"error", "suggestion"},
                         !.error = <<"Cannot access URL: ", second>>,
                         !.suggestion = "Check URL is valid and accessible"]

\* lines 268-271: the message of the first failure, nav_error, is reported;
\* the exception of the second navigation is not bound
CannotAccessResult(first, second) ==
    [NoSiteResult EXCEPT !.keys = {"error", "suggestion"},
                         !.error = <<"Cannot access URL: ", first>>,
                         !.suggestion = "Check URL is valid and accessible"]

\* lines 297-301
SiteErrorResult(msg) ==
    [NoSiteResult EXCEPT !.keys = {"error", "suggestion"},
                         !.error = <<msg>>,
                         !.suggestion = "Try a different URL or check network connectivity"]

\* the close attempted whether or not a browser was launched
CloseNeeded_mut(b) == TRUE

\* finally: if browser
CloseNeeded(b) == b # "None"

\* the messages of the exceptions the external calls raise in the model
Failures(call) ==
    CASE call = "sync_playwright" -> {"Playwright Sync API inside the asyncio loop"}
      [] call = "launch" -> {"Executable doesn't exist"}
      [] call = "new_page" -> {"Target closed"}
      [] call = "goto networkidle" -> {"Timeout 30000ms exceeded", "net::ERR_NAME_NOT_RESOLVED"}
      [] call = "goto domcontentloaded" -> {"Timeout 15000ms exceeded", "net::ERR_NAME_NOT_RESOLVED"}
      [] call = "close" -> {"Connection closed"}
      [] OTHER -> {"Execution context was destroyed"}

\* one external call and how it ended: error is "" when it returned
Call(name, error) == [call |-> name, error |-> error]

Urls == {"https://example.com", "https://no-such-host.invalid"}

SiteColors ==
    {CssColor("rgb", 255, 0, 0), CssColor("rgba", 255, 0, 0), CssColor("rgb", 0, 0, 238),
     CssColor("color", 0, 1, 0)}

\* "16px", "4px", "8px"
SiteSpacings == {<<1, 6, CharP, CharX>>, <<4, CharP, CharX>>, <<8, CharP, CharX>>}

Pages ==
    {[colors |-> c, spacing |-> sp] :
        c \in ListsOf(SiteColors, MaxPageValues), sp \in ListsOf(SiteSpacings, MaxPageValues)}

InitSite ==
    /\ pc = "start"
    /\ url \in Urls
    /\ page \in Pages
    /\ browser = "None"
    /\ nav_error = ""
    /\ exc = ""
    /\ site_calls = <<>>
    /\ site_result = NoSiteResult
    /\ ColorIdle
    /\ CatIdle
    /\ ExIdle
    /\ NormIdle
    /\ PxIdle
    /\ CliIdle
    /\ SpacingIdle

SiteOthers == <<colorVars, catVars, exVars, normVars, pxVars, cliVars, spacingVars>>

\* with sync_playwright() as p: outside the try, so its exception leaves
\* the function
StartPlaywright ==
    /\ pc = "start"
    /\ \/ /\ site_calls' = Append(site_calls, Call("sync_playwright", ""))
          /\ pc' = "entered"
          /\ exc' = exc
       \/ \E m \in Failures("sync_playwright") :
             /\ site_calls' = Append(site_calls, Call("sync_playwright", m))
             /\ exc' = m
             /\ pc' = "raised"
    /\ UNCHANGED <<siteInputs, browser, nav_error, site_result, SiteOthers>>

\* browser = p.chromium.launch(headless=True)
Launch ==
    /\ pc = "entered"
    /\ \/ /\ site_calls' = Append(site_calls, Call("launch", ""))
          /\ browser' = "open"
          /\ pc' = "launched"
          /\ exc' = exc
       \/ \E m \in Failures("launch") :
             /\ site_calls' = Append(site_calls, Call("launch", m))
             /\ browser' = browser
             /\ exc' = m
             /\ pc' = "except"
    /\ UNCHANGED <<siteInputs, nav_error, site_result, SiteOthers>>

\* page = browser.new_page(); page.set_default_timeout(30000)
NewPage ==
    /\ pc = "launched"
    /\ \/ /\ site_calls' = Append(site_calls, Call("new_page", ""))
          /\ pc' = "page"
          /\ exc' = exc
       \/ \E m \in Failures("new_page") :
             /\ site_calls' = Append(site_calls, Call("new_page", m))
             /\ exc' = m
             /\ pc' = "except"
    /\ UNCHANGED <<siteInputs, browser, nav_error, site_result, SiteOthers>>

\* page.goto(url, wait_until='networkidle', timeout=30000)
GotoNetworkIdle ==
    /\ pc = "page"
    /\ \/ /\ site_calls' = Append(site_calls, Call("goto networkidle", ""))
          /\ pc' = "extract"
          /\ nav_error' = nav_error
       \/ \E m \in Failures("goto networkidle") :
             /\ site_calls' = Append(site_calls, Call("goto networkidle", m))
             /\ nav_error' = m
             /\ pc' = "fallback"
    /\ UNCHANGED <<siteInputs, browser, exc, site_result, SiteOthers>>

\* except Exception as nav_error: page.goto(url,
\* wait_until='domcontentloaded', timeout=15000), and the return of lines
\* 268-271 when it raises too
GotoDomContentLoaded ==
    /\ pc = "fallback"
    /\ \/ /\ site_calls' = Append(site_calls, Call("goto domcontentloaded", ""))
          /\ pc' = "extract"
          /\ site_result' = site_result
       \/ \E m \in Failures("goto domcontentloaded") :
             /\ site_calls' = Append(site_calls, Call("goto domcontentloaded", m))
             /\ site_result' = CannotAccessResult(nav_error, m)
             /\ pc' = "finally"
    /\ UNCHANGED <<siteInputs, browser, nav_error, exc, SiteOthers>>

\* the extraction steps that have been called
StepsCalled ==
    Cardinality({i \in 1..Len(site_calls) :
                    \E j \in 1..Len(ExtractionSteps) : site_calls[i].call = ExtractionSteps[j]})

\* the next of the six extraction calls: page.evaluate returns or raises
ExtractStep ==
    /\ pc = "extract"
    /\ StepsCalled < Len(ExtractionSteps)
    /\ LET name == ExtractionSteps[StepsCalled + 1]
       IN  \/ /\ site_calls' = Append(site_calls, Call(name, ""))
              /\ pc' = IF StepsCalled + 1 = Len(ExtractionSteps) THEN "assemble" ELSE "extract"
              /\ exc' = exc
           \/ \E m \in Failures(name) :
                 /\ site_calls' = Append(site_calls, Call(name, m))
                 /\ exc' = m
                 /\ pc' = "except"
    /\ UNCHANGED <<siteInputs, browser, nav_error, site_result, SiteOthers>>

\* viewport = page.viewport_size; result = {...}; return result
Assemble ==
    /\ pc = "assemble"
    /\ site_result' = SiteResult(url, page)
    /\ pc' = "finally"
    /\ UNCHANGED <<siteInputs, browser, nav_error, exc, site_calls, SiteOthers>>

\* except Exception as e: return {'error': str(e), 'suggestion': ...}
HandleException ==
    /\ pc = "except"
    /\ site_result' = SiteErrorResult(exc)
    /\ pc' = "finally"
    /\ UNCHANGED <<siteInputs, browser, nav_error, exc, site_calls, SiteOthers>>

\* finally: if browser: browser.close(); then the pending return takes
\* place, unless close raised: its exception replaces the return
Finally ==
    /\ pc = "finally"
    /\ IF CloseNeeded(browser)
       THEN \/ /\ site_calls' = Append(site_calls, Call("close", ""))
               /\ browser' = "closed"
               /\ pc' = "returned"
               /\ exc' = exc
            \/ \E m \in Failures("close") :
                  /\ site_calls' = Append(site_calls, Call("close", m))
                  /\ browser' = browser
                  /\ exc' = m
                  /\ pc' = "raised"
       ELSE /\ pc' = "returned"
            /\ UNCHANGED <<site_calls, browser, exc>>
    /\ UNCHANGED <<siteInputs, nav_error, site_result, SiteOthers>>

NextSite ==
    \/ StartPlaywright
    \/ Launch
    \/ NewPage
    \/ GotoNetworkIdle
    \/ GotoDomContentLoaded
    \/ ExtractStep
    \/ Assemble
    \/ HandleException
    \/ Finally

SpecSite == InitSite /\ [][NextSite]_vars

-----------------------------------------------------------------------------
(* Properties *)

Lightness(hex) == calculate_brightness(hex_to_rgb(hex))

\* C1: the scale of generate_color_scale and of generate_color_scale_from_hex
\* has exactly the 11 steps 50..950 and holds the base colour, as given, at
\* step 500.
C1_ScaleStepsAndBase ==
    /\ pc = "scale" =>
          /\ DOMAIN scale = {50, 100, 200, 300, 400, 500, 600, 700, 800, 900, 950}
          /\ scale[500] = base_hex
    /\ pc = "scale_n" =>
          /\ DOMAIN scale_n = {"50", "100", "200", "300", "400", "500",
                               "600", "700", "800", "900", "950"}
          /\ scale_n["500"] = base_hex

\* an upper-case base colour without '#' is returned as written
C1_Witness ==
    /\ pc = "scale"
    /\ base_hex = <<21, 21, 0, 0, 0, 0>>
    /\ scale[500] = <<21, 21, 0, 0, 0, 0>>

\* C2: the lightness 0.299R+0.587G+0.114B of the generated scale does not
\* increase from one step to the next in the order 50,100,...,900,950.
C2_LightnessMonotone ==
    pc = "scale" =>
        \A i \in 1..10 :
            Lightness(scale[StepOrder[i]]) >= Lightness(scale[StepOrder[i + 1]])

C2_Witness ==
    /\ pc = "scale"
    /\ base_rgb = <<100, 51, 204>>
    /\ Lightness(scale[50]) > Lightness(scale[500])
    /\ Lightness(scale[500]) > Lightness(scale[950])

\* C3: is_grayscale(r,g,b) holds exactly when the three pairwise channel
\* differences are below 15, (128,128,128) is grayscale, (255,0,0) is not,
\* and the result is the same for every permutation of the channels.
C3_IsGrayscale ==
    pc = "gray" =>
        /\ gray <=> /\ Abs(base_rgb[1] - base_rgb[2]) < 15
                    /\ Abs(base_rgb[2] - base_rgb[3]) < 15
                    /\ Abs(base_rgb[1] - base_rgb[3]) < 15
        /\ \A p \in Permutations({1, 2, 3}) :
              is_grayscale(<<base_rgb[p[1]], base_rgb[p[2]], base_rgb[p[3]]>>) = gray
        /\ base_rgb = <<128, 128, 128>> => gray
        /\ base_rgb = <<255, 0, 0>> => ~gray

C3_Witness ==
    /\ pc = "gray"
    /\ base_rgb = <<135, 128, 142>>
    /\ gray

ChromaticIdx == {i \in 1..Len(colors) : ~colors[i].is_grayscale}

OverFiveIdx == {i \in ChromaticIdx : colors[i].percentage > 500}

MinOf(S) == CHOOSE i \in S : \A j \in S : i <= j

\* C4: primary is the first chromatic cluster above 5 percent, else the
\* first chromatic cluster, else none (and then accents is empty and the
\* command line adds no color_scales); [60% chromatic, 3% chromatic,
\* 37% gray] gives primary the 60% cluster, accents [3%], grayscale [37%].
C4_PrimarySelection ==
    pc = "categorized" =>
        /\ OverFiveIdx # {} => categorized.primary = colors[MinOf(OverFiveIdx)]
        /\ OverFiveIdx = {} /\ ChromaticIdx # {} =>
              categorized.primary = colors[MinOf(ChromaticIdx)]
        /\ ChromaticIdx = {} =>
              /\ categorized.primary = None
              /\ categorized.accents = <<>>
              /\ "color_scales" \notin
                    main_color_scales(SuccessResult(Len(colors), colors, categorized)).keys
        /\ ( /\ Len(colors) = 3
             /\ ChromaticIdx = {1, 2}
             /\ colors[1].percentage = 6000
             /\ colors[2].percentage = 300
             /\ colors[3].percentage = 3700 ) =>
              /\ categorized.primary = colors[1]
              /\ categorized.accents = <<colors[2]>>
              /\ categorized.grayscale = <<colors[3]>>

\* a chromatic cluster of 3 percent precedes the chromatic cluster of 60
C4_Witness ==
    /\ pc = "categorized"
    /\ Len(colors) = 3
    /\ ChromaticIdx = {1, 2}
    /\ colors[1].percentage = 300
    /\ colors[2].percentage = 6000
    /\ categorized.primary = colors[2]

RemoveAt(s, i) == SubSeq(s, 1, i - 1) \o SubSeq(s, i + 1, Len(s))

PrimaryIdx == IF OverFiveIdx # {} THEN MinOf(OverFiveIdx) ELSE MinOf(ChromaticIdx)

\* C5: accents is the chromatic list without the selected primary instance,
\* removed by position: one element fewer than the chromatic list, and a
\* cluster equal to the primary in every field stays in accents.
C5_AccentsByPosition ==
    pc = "categorized" /\ ChromaticIdx # {} =>
        /\ Len(categorized.accents) = Cardinality(ChromaticIdx) - 1
        /\ categorized.accents =
              SelectSeq(RemoveAt(colors, PrimaryIdx), IsChromatic)

Returned == pc \in {"returned", "returned_again", "printed"}

RECURSIVE SumPercentage(_)
SumPercentage(cs) ==
    IF cs = <<>> THEN 0 ELSE Head(cs).percentage + SumPercentage(Tail(cs))

\* C6: when at least K samples remain after subsampling and black/white
\* filtering, a successful call with num_colors = K returns total_colors = K
\* and K entries in all_colors, every percentage is within [0,100], and the
\* percentages sum to 100 up to half a hundredth per entry.
C6_KClustersSumTo100 ==
    Returned /\ "error" \notin result.keys /\ BagSize(samples) >= num_colors =>
        /\ result.total_colors = num_colors
        /\ Len(result.all_colors) = num_colors
        /\ \A i \in 1..Len(result.all_colors) :
              result.all_colors[i].percentage \in 0..10000
        /\ 2 * Abs(SumPercentage(result.all_colors) - 10000) <= num_colors

\* three clusters of one third each: 33.33 + 33.33 + 33.33
C6_Witness ==
    /\ pc = "returned"
    /\ num_colors = 3
    /\ "error" \notin result.keys
    /\ Len(result.all_colors) = 3
    /\ SumPercentage(result.all_colors) = 9999

\* C7: when no sample remains after subsampling and removal of black and
\* white pixels, the value returned carries an error and a suggestion, and
\* nothing is raised.
C7_EmptySampleErrorWithSuggestion ==
    Returned /\ file = "image" /\ BagSize(samples) = 0 =>
        /\ "error" \in result.keys
        /\ "suggestion" \in result.keys
        /\ ~raised

\* C8: for a missing path and for a file that cannot be decoded as an image
\* the value returned has an error and a suggestion and nothing is raised;
\* the existence check precedes any attempt to open, and nothing is clustered.
C8_MissingOrUndecodable ==
    Returned /\ file \in {"missing", "unidentified", "truncated"} =>
        /\ "error" \in result.keys
        /\ "suggestion" \in result.keys
        /\ ~raised
        /\ calls[1] = "exists"
        /\ \A i \in 1..Len(calls) : calls[i] # "fit"
        /\ file = "missing" => \A i \in 1..Len(calls) : calls[i] # "open"

\* C9: normalize_design_tokens turns an internal failure into a structured
\* error value and does not raise, in particular for a colors list holding a
\* string that is no 6-digit hex colour and for a spacing list holding a
\* malformed or non-string value.
C9_NormalizeNeverRaises ==
    pc = "normalized" =>
        /\ ~raised
        /\ normalize_design_tokens_raises(extracted_data) =>
              \E i \in 1..Len(tokens.keys) : tokens.keys[i] = "error"

ResultFields == {"total_colors", "all_colors", "categorized", "color_scales"}

Exclusive(d) ==
    \/ "error" \in d.keys /\ d.keys \cap ResultFields = {}
    \/ "error" \notin d.keys /\ {"total_colors", "all_colors", "categorized"} \subseteq d.keys

\* C10: the value returned by extract_colors_from_image, and the payload the
\* command line prints, either has an error field and no result field, or
\* has the result fields and no error field.
C10_SuccessErrorExclusive ==
    /\ Returned => Exclusive(result)
    /\ pc = "printed" => Exclusive(payload)

C10_Witness ==
    /\ pc = "printed"
    /\ "color_scales" \in payload.keys
    /\ "error" \notin payload.keys
    /\ payload.color_scales.primary[500] = payload.categorized.primary.hex

\* a pixel length: digits, optionally a point and digits, then "px"
IsPxLength(v) ==
    /\ v.type = "str"
    /\ Len(v.chars) >= 3
    /\ SubSeq(v.chars, Len(v.chars) - 1, Len(v.chars)) = <<CharP, CharX>>
    /\ LET n == SubSeq(v.chars, 1, Len(v.chars) - 2)
       IN  /\ \A i \in 1..Len(n) : IsNumChar(n[i])
           /\ CountDots(n) <= 1
           /\ IsDigit(n[1]) /\ IsDigit(n[Len(n)])

\* C11: px_to_rem with base 16 returns "2rem" for "32px" (and "1rem" for
\* "16px"), and returns every string that is not a pixel length unchanged,
\* without raising.
C11_PxToRem ==
    pc = "px" =>
        /\ px_value = Str(<<3, 2, CharP, CharX>>) =>
              ~raised /\ px_result = Str(<<2>> \o RemChars)
        /\ px_value = Str(<<1, 6, CharP, CharX>>) =>
              ~raised /\ px_result = Str(<<1>> \o RemChars)
        /\ px_value.type = "str" /\ ~IsPxLength(px_value) =>
              ~raised /\ px_result = px_value

\* normalize_design_tokens has returned a token document
NormReturned == pc \in {"normalized", "dumped"} /\ ~raised

\* the positions of the chromatic values of the colors list of the document
\* (none when the key is absent or its value is no list)
ChromaticPos ==
    IF "colors" \in extracted_data.keys /\ extracted_data.colors.type = "list"
    THEN {i \in 1..Len(extracted_data.colors.items) :
             ~is_grayscale(hex_to_rgb(extracted_data.colors.items[i].chars))}
    ELSE {}

\* C12: the primary ramp is the scale of the first chromatic value of the
\* colors list, in input order (that value itself at step 500), and the
\* scale of the default blue #3b82f6 when the list is empty, is no list or
\* holds only grayscale values.
C12_PrimaryFromFirstChromatic ==
    NormReturned =>
        LET seed == IF ChromaticPos # {}
                    THEN extracted_data.colors.items[MinOf(ChromaticPos)].chars
                    ELSE DefaultBlue
        IN  /\ tokens.colors.primary = generate_color_scale_from_hex(seed)
            /\ tokens.colors.primary["500"] = seed

\* "808080" then "#3B82F6": the gray is skipped, the blue is kept as written
C12_Witness ==
    /\ NormReturned
    /\ "colors" \in extracted_data.keys
    /\ extracted_data.colors.type = "list"
    /\ Len(extracted_data.colors.items) = 2
    /\ ChromaticPos = {2}
    /\ tokens.colors.primary["500"] = <<HashChar, 3, 17, 8, 2, 21, 6>>

\* C13: whatever the colors list holds, the neutral ramp is the fixed table
\* of 13 entries white, 50, ..., 950, black and the semantic colours are the
\* four fixed values.
C13_NeutralSemanticFixed ==
    NormReturned =>
        /\ DOMAIN tokens.colors.neutral =
              {"white", "50", "100", "200", "300", "400", "500", "600", "700", "800",
               "900", "950", "black"}
        /\ Cardinality(DOMAIN tokens.colors.neutral) = 13
        /\ tokens.colors.neutral = generate_grayscale_scale
        /\ tokens.colors.neutral["white"] = HexStr(15, 15, 15, 15, 15, 15)
        /\ tokens.colors.neutral["500"] = HexStr(7, 3, 7, 3, 7, 3)
        /\ tokens.colors.neutral["black"] = HexStr(0, 0, 0, 0, 0, 0)
        /\ tokens.colors.semantic =
              [success |-> HexStr(1, 0, 11, 9, 8, 1), warning |-> HexStr(15, 5, 9, 14, 0, 11),
               error |-> HexStr(14, 15, 4, 4, 4, 4), info |-> HexStr(3, 11, 8, 2, 15, 6)]

\* an extracted gray "808080" does not reach the neutral ramp
C13_Witness ==
    /\ NormReturned
    /\ "colors" \in extracted_data.keys
    /\ extracted_data.colors.type = "list"
    /\ Len(extracted_data.colors.items) >= 1
    /\ extracted_data.colors.items[1] = Str(<<8, 0, 8, 0, 8, 0>>)
    /\ tokens.colors.neutral["500"] = HexStr(7, 3, 7, 3, 7, 3)

DefaultFamilies ==
    <<[key |-> "sans",
       value |-> "'Inter', -apple-system, BlinkMacSystemFont, 'Segoe UI', sans-serif"],
      [key |-> "serif", value |-> "'Merriweather', Georgia, serif"],
      [key |-> "mono", value |-> "'JetBrains Mono', 'Courier New', monospace"]>>

DefaultSpacing ==
    <<[key |-> <<0>>, value |-> <<0>>],
      [key |-> <<0, DotChar, 1, 2, 5>>, value |-> <<0, DotChar, 1, 2, 5>> \o RemChars],
      [key |-> <<0, DotChar, 2, 5>>, value |-> <<0, DotChar, 2, 5>> \o RemChars],
      [key |-> <<0, DotChar, 5>>, value |-> <<0, DotChar, 5>> \o RemChars],
      [key |-> <<0, DotChar, 7, 5>>, value |-> <<0, DotChar, 7, 5>> \o RemChars],
      [key |-> <<1>>, value |-> <<1>> \o RemChars],
      [key |-> <<1, DotChar, 5>>, value |-> <<1, DotChar, 5>> \o RemChars],
      [key |-> <<2>>, value |-> <<2>> \o RemChars],
      [key |-> <<3>>, value |-> <<3>> \o RemChars],
      [key |-> <<4>>, value |-> <<4>> \o RemChars]>>

\* every key of the document is absent or holds an empty value
EmptyExtraction ==
    /\ extracted_data.colors = [type |-> "list", items |-> <<>>]
    /\ extracted_data.typography.fontFamilies = <<>>
    /\ extracted_data.spacing = <<>>
    /\ extracted_data.borderRadius = <<>>
    /\ extracted_data.shadows = <<>>

\* C15: for the empty extraction document, and for a document whose keys are
\* present but empty, the token document is the default one: the ramp of
\* #3b82f6, the fixed neutral and semantic colours, the default font
\* families, the 10 baseline spacing entries and the fixed other tables.
C15_EmptyDocumentDefaults ==
    NormReturned /\ EmptyExtraction =>
        /\ tokens.colors.primary = generate_color_scale_from_hex(DefaultBlue)
        /\ tokens.colors.primary["500"] = DefaultBlue
        /\ tokens.colors.neutral = generate_grayscale_scale
        /\ tokens.colors.semantic = semantic_colors
        /\ tokens.typography =
              [fontFamilies |-> DefaultFamilies, fontSizes |-> font_sizes,
               fontWeights |-> font_weights, lineHeights |-> line_heights]
        /\ Len(tokens.spacing) = 10
        /\ tokens.spacing = DefaultSpacing
        /\ tokens.borderRadius = normalize_border_radius(<<>>)
        /\ tokens.shadows = normalize_shadows(<<>>)
        /\ tokens.breakpoints = breakpoints
        /\ tokens.transitions = transitions
        /\ tokens.zIndex = zIndex

\* all keys present and empty
C15_Witness ==
    /\ NormReturned
    /\ extracted_data.keys = {"colors", "typography", "spacing", "borderRadius", "shadows"}
    /\ EmptyExtraction
    /\ tokens.spacing[10].key = <<4>>

\* C16: a returned token document has the eight families colors,
\* typography, spacing, borderRadius, shadows, breakpoints, transitions,
\* zIndex, in this order, whatever keys the input has, and the command line
\* prints them in this order.
C16_EightFamiliesInOrder ==
    /\ NormReturned =>
          tokens.keys = <<"colors", "typography", "spacing", "borderRadius", "shadows",
                          "breakpoints", "transitions", "zIndex">>
    /\ pc = "dumped" =>
          payload.keys = <<"colors", "typography", "spacing", "borderRadius", "shadows",
                           "breakpoints", "transitions", "zIndex">>

\* a document with only a spacing key, printed by the command line
C16_Witness ==
    /\ pc = "dumped"
    /\ extracted_data.keys = {"spacing"}
    /\ Len(payload.keys) = 8
    /\ payload.keys[3] = "spacing"

\* an image of n pixels, all (255,0,0)
SolidRed(n) == [i \in PaletteIdx |-> IF Palette[i] = <<255, 0, 0>> THEN n ELSE 0]

\* C17: the command line run on a 2x2 solid-red image with K=1 and the
\* default sample fraction prints one cluster with rgb (255,0,0), percentage
\* 100, is_grayscale false and brightness 76.245 rounded to hundredths, and
\* color_scales.primary[500] = "#ff0000".
C17_SolidRedCommandLine ==
    ( /\ pc = "printed"
      /\ file = "image"
      /\ image = SolidRed(4)
      /\ argc = 3
      /\ num_colors = 1 ) =>
        /\ "error" \notin payload.keys
        /\ payload.total_colors = 1
        /\ Len(payload.all_colors) = 1
        /\ payload.all_colors[1].rgb = <<255, 0, 0>>
        /\ payload.all_colors[1].percentage = 10000
        /\ ~payload.all_colors[1].is_grayscale
        /\ payload.all_colors[1].brightness \in {7624, 7625}
        /\ "color_scales" \in payload.keys
        /\ payload.color_scales.primary[500] = <<HashChar, 15, 15, 0, 0, 0, 0>>

\* C18: in a successful result all_colors is in non-increasing order of
\* percentage, and categorized is categorize_colors of this sorted list.
C18_SortedByPercentage ==
    Returned /\ "error" \notin result.keys =>
        /\ \A i \in 1..(Len(result.all_colors) - 1) :
              result.all_colors[i].percentage >= result.all_colors[i + 1].percentage
        /\ result.categorized = categorize_colors(result.all_colors)

\* three clusters of 50, 25 and 25 percent
C18_Witness ==
    /\ pc = "returned"
    /\ "error" \notin result.keys
    /\ Len(result.all_colors) = 3
    /\ result.all_colors[1].percentage = 5000
    /\ result.all_colors[2].percentage = 2500
    /\ result.all_colors[3].percentage = 2500

\* C19: a run of a command line that ends in a fatal error (an error value
\* returned by extract_colors_from_image, a missing argument, an exception)
\* has a non-zero exit status, and the error or result payload is printed.
C19_NonZeroExitOnError ==
    /\ pc = "printed" =>
          /\ payload.keys # {}
          /\ "error" \in payload.keys => exit_status # 0
    /\ pc = "usage" => exit_status # 0
    /\ pc = "traceback" => exit_status # 0 /\ payload.keys # {}

\* C20: a second call of extract_colors_from_image with the same image, K
\* and sample fraction returns the result of the first call.
C20_Reproducible ==
    [][pc = "returned" /\ pc' = "returned_again" => result' = result]_vars

-----------------------------------------------------------------------------
(* Spacing scale: order, repeats, snapping *)

\* the list l rearranged by the permutation p of its positions
Permuted(l, p) == [j \in 1..Len(l) |-> l[p[j]]]

\* C21: normalize_spacing_scale treats its input as an unordered,
\* possibly duplicated collection: permuting the list, or repeating one of
\* its entries, leaves the returned scale (keys, values, order of the keys)
\* unchanged, and a list that makes the call raise does so in any order.
C21_OrderAndRepeatsIgnored ==
    /\ pc = "spacing_scale" =>
          \A p \in Permutations(1..Len(spacing_list)) :
              LET q == Permuted(spacing_list, p)
              IN  /\ ~normalize_spacing_scale_raises(q)
                  /\ named_scale = normalize_spacing_scale(q)
                  /\ \A i \in 1..Len(q) :
                        named_scale = normalize_spacing_scale(Append(q, q[i]))
    /\ pc = "spacing_raised" =>
          \A p \in Permutations(1..Len(spacing_list)) :
              normalize_spacing_scale_raises(Permuted(spacing_list, p))

\* "500px", "5px" and "500px" again: the scale has the one entry 24, last
C21_Witness ==
    /\ pc = "spacing_scale"
    /\ spacing_list = <<Str(<<5, 0, 0, CharP, CharX>>), Str(<<5, CharP, CharX>>),
                          Str(<<5, 0, 0, CharP, CharX>>)>>
    /\ Len(named_scale) = 11
    /\ named_scale[11].key = <<2, 4>>

\* the 31 entries of the ladder, in units of 1/32 rem
Ladder ==
    {0, 4, 8, 12, 16, 20, 24, 28} \cup {32 + 8 * i : i \in 0..8}
        \cup {96 + 16 * i : i \in 1..2} \cup {32 * i : i \in 5..12}
        \cup {448, 512, 640, 768}

\* the 10 baseline entries: 0, 0.125, 0.25, 0.5, 0.75, 1, 1.5, 2, 3, 4 rem
Baseline == {0, 4, 8, 16, 24, 32, 48, 64, 96, 128}

\* the ladder entry nearest to r, the smaller one of two equally near
Snap(r) ==
    CHOOSE x \in Ladder :
        \A y \in Ladder :
            \/ Abs(x - r) < Abs(y - r)
            \/ Abs(x - r) = Abs(y - r) /\ x <= y

IsRemLength(v) ==
    /\ v.type = "str"
    /\ EndsWithRem(v.chars)
    /\ ~FloatRaises(SubSeq(v.chars, 1, Len(v.chars) - 3))

\* the length v in units of 1/32 rem: px / 16 for a pixel length
LengthRem(v) ==
    IF IsPxLength(v)
    THEN (2 * Float32(SubSeq(v.chars, 1, Len(v.chars) - 2))) \div 32
    ELSE Float32(SubSeq(v.chars, 1, Len(v.chars) - 3))

\* the number a key or a value of the scale denotes, in units of 1/32 rem
ScaleNumber(chars) ==
    Float32(IF EndsWithRem(chars) THEN SubSeq(chars, 1, Len(chars) - 3) ELSE chars)

\* C22: the values of the returned scale are exactly the 10 baseline
\* entries together with snap(px/16) of every input length, snap taking the
\* nearest ladder entry and the smaller one on a tie; every value is a
\* ladder entry, appears once, and the keys ascend numerically.
C22_BaselineAndSnapped ==
    pc = "spacing_scale" =>
        LET sp      == spacing_list
            n       == Len(named_scale)
            lengths == {i \in 1..Len(sp) : IsPxLength(sp[i]) \/ IsRemLength(sp[i])}
            values  == {ScaleNumber(named_scale[i].value) : i \in 1..n}
        IN  /\ values = Baseline \cup {Snap(LengthRem(sp[i])) : i \in lengths}
            /\ values \subseteq Ladder
            /\ Cardinality(values) = n
            /\ \A i \in 1..n :
                  ScaleNumber(named_scale[i].key) = ScaleNumber(named_scale[i].value)
            /\ \A i \in 1..(n - 1) :
                  ScaleNumber(named_scale[i].key) < ScaleNumber(named_scale[i + 1].key)

\* "5px" is 0.3125 rem, as near to 0.25 as to 0.375: the scale has no 0.375
C22_Witness ==
    /\ pc = "spacing_scale"
    /\ spacing_list = <<Str(<<5, CharP, CharX>>), Str(<<5, 0, 0, CharP, CharX>>)>>
    /\ \E i \in 1..Len(named_scale) : named_scale[i].key = <<0, DotChar, 2, 5>>
    /\ \A i \in 1..Len(named_scale) : named_scale[i].key # <<0, DotChar, 3, 7, 5>>
    /\ named_scale[Len(named_scale)].value = <<2, 4>> \o RemChars

-----------------------------------------------------------------------------
(* Scale channels, partition, cluster records *)

\* floor(c * factor) for the rational factor of the step
ExactFloor(c, s) ==
    IF s < 500 THEN (c * (5000 + 7 * (500 - s))) \div 5000
               ELSE (c * (4500 - 8 * (s - 500))) \div 4500

\* C23: for every channel value c the entry of a lighter step s has the
\* channel min(255, floor(c * (1 + ((500-s)/500)*0.7))) and that of a darker
\* step max(0, floor(c * (1 - ((s-500)/450)*0.8))); every channel is within
\* 0..255, never below c at a lighter step, never above c at a darker one.
C23_ChannelFormula ==
    pc = "scale" =>
        \A s \in Steps \ {500}, ch \in 1..3 :
            LET c == base_rgb[ch]
                v == hex_to_rgb(scale[s])[ch]
            IN  /\ v = IF s < 500 THEN Min(255, ExactFloor(c, s))
                                  ELSE Max(0, ExactFloor(c, s))
                /\ v \in 0..255
                /\ s < 500 => v >= c
                /\ s > 500 => v <= c

\* the list is sorted by percentage, largest first
SortedByPercentage(cs) ==
    \A i \in 1..(Len(cs) - 1) : cs[i].percentage >= cs[i + 1].percentage

GrayIdx == {i \in 1..Len(colors) : colors[i].is_grayscale}

\* C24: categorize_colors partitions its (sorted) input: the grayscale
\* clusters, each once, make up grayscale in ascending brightness, equal
\* brightness in input order; the chromatic clusters, each once and in input
\* order, make up primary followed by accents.
C24_Partition ==
    pc = "categorized" /\ SortedByPercentage(colors) =>
        LET g     == categorized.grayscale
            chrom == IF categorized.primary = None THEN categorized.accents
                     ELSE <<categorized.primary>> \o categorized.accents
        IN  /\ Len(chrom) = Cardinality(ChromaticIdx)
            /\ \A i \in 1..Len(chrom) :
                  chrom[i] = colors[CHOOSE j \in ChromaticIdx :
                                      Cardinality({k \in ChromaticIdx : k < j}) = i - 1]
            /\ Len(g) = Cardinality(GrayIdx)
            /\ \E f \in [1..Len(g) -> GrayIdx] :
                  /\ \A i \in 1..Len(g) : g[i] = colors[f[i]]
                  /\ \A i, j \in 1..Len(g) :
                        i < j => \/ g[i].brightness < g[j].brightness
                                 \/ g[i].brightness = g[j].brightness /\ f[i] < f[j]

\* the mean of the samples, the centroid when there is one cluster
MeanNum(ch) ==
    SumUpTo([c \in PaletteIdx |-> samples[c] * Palette[c][ch]], Len(Palette))

\* C25: in every cluster record each channel of rgb is the centroid
\* coordinate rounded to the nearest integer and hex encodes these three
\* integers (stated for one cluster, whose centroid is the mean of the
\* samples).
C25_RgbRoundedCentroid ==
    Returned /\ "error" \notin result.keys /\ result.total_colors = 1 =>
        LET rec == result.all_colors[1]
            n   == BagSize(samples)
        IN  /\ \A ch \in 1..3 :
                  2 * Abs(rec.rgb[ch] * n - MeanNum(ch)) <= n
            /\ rec.hex = <<HashChar>> \o Fmt02x(rec.rgb[1]) \o Fmt02x(rec.rgb[2])
                              \o Fmt02x(rec.rgb[3])

\* C26: in every cluster record is_grayscale is true exactly when the three
\* pairwise differences of the channels of the record's rgb are below 15.
C26_GrayscaleOfReportedRgb ==
    Returned /\ "error" \notin result.keys =>
        \A i \in 1..Len(result.all_colors) :
            LET rec == result.all_colors[i]
            IN  rec.is_grayscale <=>
                    /\ Abs(rec.rgb[1] - rec.rgb[2]) < 15
                    /\ Abs(rec.rgb[2] - rec.rgb[3]) < 15
                    /\ Abs(rec.rgb[1] - rec.rgb[3]) < 15

\* C27: when the list given to categorize_colors is sorted by percentage,
\* largest first, and has a chromatic cluster, primary is the first
\* chromatic cluster of the list, above 5 percent or not.
C27_SortedPrimaryIsFirstChromatic ==
    pc = "categorized" /\ SortedByPercentage(colors) /\ ChromaticIdx # {} =>
        categorized.primary = colors[MinOf(ChromaticIdx)]

\* the chromatic clusters are below the threshold and follow a gray one
C27_Witness ==
    /\ pc = "categorized"
    /\ Len(colors) = 3
    /\ SortedByPercentage(colors)
    /\ colors[1].is_grayscale /\ colors[1].percentage = 6000
    /\ ~colors[2].is_grayscale /\ colors[2].percentage = 300
    /\ ~colors[3].is_grayscale /\ colors[3].rgb # colors[2].rgb
    /\ categorized.primary = colors[2]
    /\ categorized.accents = <<colors[3]>>

\* C28: the two scale generators agree: for every 6-digit base colour and
\* every step, generate_color_scale(base)[step] of the quantizer is
\* generate_color_scale_from_hex(base)[str(step)] of the normalizer, and
\* is_grayscale_hex of a colour is is_grayscale of its channels.
C28_GeneratorsAgree ==
    /\ pc = "scale" =>
          \A s \in Steps : scale[s] = generate_color_scale_from_hex(base_hex)[StepStr(s)]
    /\ pc = "scale_n" =>
          \A s \in Steps : scale_n[StepStr(s)] = generate_color_scale(base_hex)[s]
    /\ pc = "gray" =>
          /\ ~is_grayscale_hex_raises(Str(base_hex))
          /\ gray = is_grayscale_hex(Str(base_hex))

\* a clamped channel at step 50 and, at step 950, the channel 50 that the
\* float product 255 * 0.19999999999999996 truncates to
C28_Witness ==
    /\ pc = "scale_n"
    /\ base_rgb = <<255, 51, 204>>
    /\ SubSeq(scale_n["50"], 2, 3) = <<15, 15>>
    /\ SubSeq(scale_n["950"], 2, 3) = <<3, 2>>
    /\ scale_n["950"] = generate_color_scale(base_hex)[950]

-----------------------------------------------------------------------------
(* Website sampler: navigation fallback and browser close *)

CallIdx(name) == {i \in 1..Len(site_calls) : site_calls[i].call = name}

Succeeded(name) == \E i \in CallIdx(name) : site_calls[i].error = ""

Failed(name) == \E i \in CallIdx(name) : site_calls[i].error # ""

\* the positions of the extraction calls, in the order they were made
ExtractionIdx ==
    {i \in 1..Len(site_calls) :
        \E k \in 1..Len(ExtractionSteps) : site_calls[i].call = ExtractionSteps[k]}

Navigated == Succeeded("goto networkidle") \/ Succeeded("goto domcontentloaded")

BothFailed == Failed("goto networkidle") /\ Failed("goto domcontentloaded")

\* the fallback navigation follows a failed first navigation
FallbackOnlyAfterFailure ==
    \A i \in CallIdx("goto domcontentloaded") :
        \E j \in 1..(i - 1) :
            site_calls[j].call = "goto networkidle" /\ site_calls[j].error # ""

\* both navigations failed: the first failure is reported, nothing extracted
BothFailedReportsFirst ==
    pc = "returned" /\ BothFailed =>
        /\ site_result.keys = {"error", "suggestion"}
        /\ \E i \in CallIdx("goto networkidle") :
              site_result.error = <<"Cannot access URL: ", site_calls[i].error>>
        /\ ExtractionIdx = {}

\* C29 (as stated): the domcontentloaded navigation is attempted only after
\* the networkidle navigation failed; when both fail, {error, suggestion}
\* reporting the first failure is returned and nothing is extracted; when
\* either navigation succeeds, all six extraction steps run and a result
\* without an error field is returned.
C29_NavigationFallback ==
    /\ FallbackOnlyAfterFailure
    /\ BothFailedReportsFirst
    /\ pc = "returned" /\ Navigated =>
          /\ \A k \in 1..Len(ExtractionSteps) : Succeeded(ExtractionSteps[k])
          /\ "error" \notin site_result.keys

\* C29 (amended): as above, except that after a successful navigation the
\* six extraction steps run in order until one raises: if none raises, the
\* result without an error field is returned, else the remaining steps are
\* skipped and {error, suggestion} reporting that exception is returned; and
\* the function raises only when sync_playwright or browser.close raises.
C29_NavigationFallbackUntilRaise ==
    /\ FallbackOnlyAfterFailure
    /\ BothFailedReportsFirst
    /\ pc = "returned" /\ Navigated =>
          LET n    == Cardinality(ExtractionIdx)
              at(k) == CHOOSE i \in ExtractionIdx :
                          Cardinality({j \in ExtractionIdx : j < i}) = k - 1
          IN  /\ n >= 1
              /\ \A k \in 1..n : site_calls[at(k)].call = ExtractionSteps[k]
              /\ \A k \in 1..(n - 1) : site_calls[at(k)].error = ""
              /\ IF site_calls[at(n)].error = ""
                 THEN /\ n = Len(ExtractionSteps)
                      /\ "error" \notin site_result.keys
                      /\ site_result.url = url
                      /\ {"colors", "typography", "spacing", "borderRadius", "shadows",
                          "components"} \subseteq site_result.keys
                 ELSE /\ site_result.keys = {"error", "suggestion"}
                      /\ site_result.error = <<site_calls[at(n)].error>>
    /\ pc = "raised" =>
          /\ site_calls[Len(site_calls)].call \in {"sync_playwright", "close"}
          /\ site_calls[Len(site_calls)].error # ""

\* both navigations fail, with different messages
C29_Witness ==
    /\ pc = "returned"
    /\ Len(site_calls) = 6
    /\ site_calls[4] = Call("goto networkidle", "Timeout 30000ms exceeded")
    /\ site_calls[5] = Call("goto domcontentloaded", "net::ERR_NAME_NOT_RESOLVED")
    /\ site_result.error = <<"Cannot access URL: ", "Timeout 30000ms exceeded">>
    /\ site_calls[Len(site_calls)] = Call("close", "")

\* C30: once the browser has been launched it is closed exactly once before
\* the function returns, on every path (success, both navigations failed,
\* an exception of an extraction step); if the launch fails, no close is
\* attempted and a structured error is returned.
C30_BrowserClosedOnce ==
    /\ Cardinality(CallIdx("close")) <= 1
    /\ \A i \in CallIdx("close") :
          \E j \in 1..(i - 1) : site_calls[j] = Call("launch", "")
    /\ pc = "returned" /\ Succeeded("launch") =>
          /\ Cardinality(CallIdx("close")) = 1
          /\ site_calls[Len(site_calls)] = Call("close", "")
          /\ browser = "closed"
    /\ pc = "returned" /\ Failed("launch") =>
          /\ CallIdx("close") = {}
          /\ site_result.keys = {"error", "suggestion"}
          /\ \E i \in CallIdx("launch") : site_result.error = <<site_calls[i].error>>

\* the third extraction step raised: the handler's value is returned after
\* the one close
C30_Witness ==
    /\ pc = "returned"
    /\ Failed("extract_spacing")
    /\ "error" \in site_result.keys
    /\ Cardinality(CallIdx("close")) = 1
    /\ browser = "closed"

====
